---- MODULE Spec2Model ----
(***************************************************************************)
(* Model of the jaxpr -> Mosaic (TPU) MLIR lowering engine of              *)
(* jax/_src/pallas/mosaic/lowering.py.                                     *)
(*                                                                         *)
(* Lowered values are SSA handles <<kind, id, k>>:                         *)
(*   <<"ir", n, k>>    result k of the n-th emitted instruction            *)
(*   <<"arg", n, 0>>   n-th block argument of the enclosing function       *)
(*   <<"host", c, 0>>  a raw host literal (jax_core.Literal.val)           *)
(* Emitted instructions are records [op, ins, imm, attr, dims, type].       *)
(***************************************************************************)
EXTENDS Integers, Sequences, FiniteSets, TLC

\* one rule invocation: its inputs and what it returned or raised
VARIABLES call, ret
\* one run of the walker: the program lowered, the stack of active
\* jaxpr_subcomp / rule activations, the instructions emitted so far, the
\* outcome, and the trace of walker events
VARIABLES prog, stack, emitted, status, error, outvals, log
\* one run of lower_jaxpr_to_module: what it was called with, and the module
\* under construction
VARIABLES request, module

rvars == <<call, ret>>
mvars == <<request, module>>
wvars == <<prog, stack, emitted, status, error, outvals, log, mvars>>
vars == <<call, ret, prog, stack, emitted, status, error, outvals, log,
          request, module>>

----------------------------------------------------------------------------
(* Bounds of the model *)

\* largest rank of a reference / operand enumerated
MaxRank == 2

\* largest iteration count of a counted loop walked
MaxSteps == 4
\* largest rank of a grid
MaxGrid == 2

----------------------------------------------------------------------------
(* dtypes: numpy's abstract hierarchy as used through jnp.issubdtype *)

DTypes == {"bool", "int8", "int16", "int32", "uint8", "uint16", "uint32",
           "bfloat16", "float16", "float32"}

itemsize(d) ==
  CASE d \in {"bool", "int8", "uint8"} -> 1
    [] d \in {"int16", "uint16", "bfloat16", "float16"} -> 2
    [] OTHER -> 4

floating(d) == d \in {"bfloat16", "float16", "float32"}
signedinteger(d) == d \in {"int8", "int16", "int32"}
unsignedinteger(d) == d \in {"uint8", "uint16", "uint32"}
integer(d) == signedinteger(d) \/ unsignedinteger(d)

----------------------------------------------------------------------------
(* Values, instructions and rule results *)

IrVal(n) == <<"ir", n, 0>>
ArgVal(n) == <<"arg", n, 0>>
HostVal(c) == <<"host", c, 0>>
IsIrValue(v) == v[1] \in {"ir", "arg"}

ShapedArray(shape, dtype) == [shape |-> shape, dtype |-> dtype, ref |-> FALSE]
AbstractRef(shape, dtype) == [shape |-> shape, dtype |-> dtype, ref |-> TRUE]

\* hardware types: scalar, vector or memref of a shape and element type
IrType(kind, shape, dtype, memory_space) ==
  [kind |-> kind, shape |-> shape, dtype |-> dtype,
   memory_space |-> memory_space]
NoType == IrType("none", <<>>, "", "")
IndexType == IrType("scalar", <<>>, "index", "")

aval_to_ir_type(aval, memory_space) ==
  IF aval.ref
    THEN IrType("memref", aval.shape, aval.dtype,
                IF memory_space = "" THEN "vmem" ELSE memory_space)
    ELSE IF aval.shape = <<>>
      THEN IrType("scalar", <<>>, aval.dtype, "")
      ELSE IrType("vector", aval.shape, aval.dtype, "")

VectorType(shape, dtype) == IrType("vector", shape, dtype, "")
dtype_to_ir_type(dtype) == IrType("scalar", <<>>, dtype, "")

\* an emitted instruction: operands ins, integer immediate imm, string
\* attribute attr, integer-list attribute dims, result type
Instr(op, ins, imm, attr, dims, type) ==
  [op |-> op, ins |-> ins, imm |-> imm, attr |-> attr, dims |-> dims,
   type |-> type]

\* a rule returned normally: the instructions it appended and its value(s)
Returned(instrs, out) ==
  [ok |-> TRUE, err |-> "", names |-> <<>>, instrs |-> instrs, out |-> out,
   single |-> TRUE]
ReturnedMany(instrs, out) ==
  [ok |-> TRUE, err |-> "", names |-> <<>>, instrs |-> instrs, out |-> out,
   single |-> FALSE]
\* a rule raised: the exception class, the names its message carries, and
\* the instructions appended before the raise
Raised(err, names, instrs) ==
  [ok |-> FALSE, err |-> err, names |-> names, instrs |-> instrs,
   out |-> <<>>, single |-> TRUE]

NoRet == [ok |-> FALSE, err |-> "pending", names |-> <<>>, instrs |-> <<>>,
          out |-> <<>>, single |-> TRUE]

RuleContext(avals_in, avals_out, block_shapes) ==
  [avals_in |-> avals_in, avals_out |-> avals_out,
   block_shapes |-> block_shapes]

\* no program, no raised exception, nothing returned by the walker
NoProgram == [name |-> "none"]
NoCall == [rule |-> "none"]
NoError == [kind |-> "", names |-> <<>>]
NoOutputs == [returned |-> FALSE, vals |-> <<>>]
NoRequest == [name |-> "none"]
NoModule == [stage |-> "none"]

----------------------------------------------------------------------------
(* convert_element_type *)

\* convert_element_type without the early return for equal dtypes
_convert_element_type_no_identity(ctx, x, new_dtype, base) ==
  LET out_aval == ctx.avals_out[1]
      old_dtype == ctx.avals_in[1].dtype
      out_type == aval_to_ir_type(out_aval, "")
      cast(op) == Returned(<<Instr(op, <<x>>, 0, "", <<>>, out_type)>>,
                           <<IrVal(base + 1)>>)
  IN IF floating(old_dtype) /\ floating(new_dtype)
       THEN IF itemsize(old_dtype) < itemsize(new_dtype)
              THEN cast("arith.extf")
              ELSE cast("arith.truncf")
     ELSE IF old_dtype = "bool" /\ integer(new_dtype)
       THEN cast("arith.extsi")
     ELSE IF signedinteger(old_dtype) /\ floating(new_dtype)
       THEN cast("arith.sitofp")
     ELSE IF signedinteger(old_dtype) /\ signedinteger(new_dtype)
       THEN IF itemsize(old_dtype) < itemsize(new_dtype)
              THEN cast("arith.extsi")
              ELSE cast("arith.trunci")
     ELSE IF floating(old_dtype) /\ signedinteger(new_dtype)
       THEN cast("arith.fptosi")
     ELSE Raised("NotImplementedError", <<old_dtype, new_dtype>>, <<>>)

_convert_element_type_lowering_rule(ctx, x, new_dtype, base) ==
  LET out_aval == ctx.avals_out[1]
      old_dtype == ctx.avals_in[1].dtype
      out_type == aval_to_ir_type(out_aval, "")
      cast(op) == Returned(<<Instr(op, <<x>>, 0, "", <<>>, out_type)>>,
                           <<IrVal(base + 1)>>)
  IN IF old_dtype = new_dtype THEN Returned(<<>>, <<x>>)
     ELSE IF floating(old_dtype) /\ floating(new_dtype)
       THEN IF itemsize(old_dtype) < itemsize(new_dtype)
              THEN cast("arith.extf")
              ELSE cast("arith.truncf")
     ELSE IF old_dtype = "bool" /\ integer(new_dtype)
       THEN cast("arith.extsi")
     ELSE IF signedinteger(old_dtype) /\ floating(new_dtype)
       THEN cast("arith.sitofp")
     ELSE IF signedinteger(old_dtype) /\ signedinteger(new_dtype)
       THEN IF itemsize(old_dtype) < itemsize(new_dtype)
              THEN cast("arith.extsi")
              ELSE cast("arith.trunci")
     ELSE IF floating(old_dtype) /\ signedinteger(new_dtype)
       THEN cast("arith.fptosi")
     ELSE Raised("NotImplementedError", <<old_dtype, new_dtype>>, <<>>)

----------------------------------------------------------------------------
(* Constant materialization *)

\* ir_constant(x, mlir_type) for a host value c of numpy dtype xdtype
\* ("int" / "float" stand for Python scalars, which become int32 / float32)
ir_constant(c, xdtype, mlir_type) ==
  LET d == CASE xdtype = "int" -> "int32"
             [] xdtype = "float" -> "float32"
             [] OTHER -> xdtype
  IN IF d \in {"int32", "uint32", "float32", "bfloat16", "bool"}
       THEN [ok |-> TRUE,
             instr |-> Instr("arith.constant", <<>>, c, "", <<>>, mlir_type)]
       ELSE [ok |-> FALSE,
             instr |-> Instr("arith.constant", <<>>, c, "", <<>>, mlir_type)]

----------------------------------------------------------------------------
(* Indexing: get / load / swap *)

\* core.mapped in a block shape, and an absent (None) block shape
Mapped == -1
NoneBlockShape == <<-2>>

\* primitives.Slice(start, size) and an integer indexer of a given aval shape
Slice(start, size) ==
  [slice |-> TRUE, v |-> start, size |-> size, shape |-> <<>>]
IntIndex(v, shape) ==
  [slice |-> FALSE, v |-> v, size |-> 0, shape |-> shape]

NDIndexer(indices, shape, int_indexer_shape) ==
  [indices |-> indices, shape |-> shape,
   int_indexer_shape |-> int_indexer_shape]

\* how many of the first n entries of a boolean sequence are TRUE
CountTrue(flags, n) == Cardinality({q \in 1..n : flags[q]})

\* an indexer that hands out the supplied indices last-first
_convert_flat_indexing_reversed(ref_aval, non_slice_idx, non_slice_idx_avals, indexed_dims) ==
  LET n == Len(non_slice_idx)
      rank == Len(ref_aval.shape)
      splatted ==
        [d \in 1..rank |->
           IF indexed_dims[d]
             THEN IntIndex(non_slice_idx[n + 1 - CountTrue(indexed_dims, d)],
                           non_slice_idx_avals[
                             n + 1 - CountTrue(indexed_dims, d)].shape)
             ELSE Slice(HostVal(0), ref_aval.shape[d])]
  IN IF Len(indexed_dims) # rank \/ CountTrue(indexed_dims, rank) # n
          \/ Len(non_slice_idx_avals) # n
          \/ \E i, j \in 1..n :
               non_slice_idx_avals[i].shape # non_slice_idx_avals[j].shape
       THEN [ok |-> FALSE, err |-> "ValueError",
             indexer |-> NDIndexer(<<>>, ref_aval.shape, <<>>)]
       ELSE [ok |-> TRUE, err |-> "",
             indexer |-> NDIndexer(splatted, ref_aval.shape,
                           IF n = 0 THEN <<>>
                           ELSE non_slice_idx_avals[1].shape)]

\* the indexer rebuilt from the flat indices: a full slice for every
\* unindexed dimension, the next supplied index for every indexed one
_convert_flat_indexing_to_indexer(ref_aval, non_slice_idx, non_slice_idx_avals, indexed_dims) ==
  LET rank == Len(ref_aval.shape)
      splatted ==
        [d \in 1..rank |->
           IF indexed_dims[d]
             THEN IntIndex(non_slice_idx[CountTrue(indexed_dims, d)],
                           non_slice_idx_avals[CountTrue(indexed_dims, d)].shape)
             ELSE Slice(HostVal(0), ref_aval.shape[d])]
      int_shapes == {splatted[d].shape :
                       d \in {e \in 1..rank : ~splatted[e].slice}}
      int_indexer_shape ==
        IF non_slice_idx # <<>> THEN CHOOSE sh \in int_shapes : TRUE
                                ELSE <<>>
  IN IF Len(non_slice_idx) # Len(non_slice_idx_avals)
          \/ Len(indexed_dims) # rank
       THEN [ok |-> FALSE, err |-> "AssertionError",
             indexer |-> NDIndexer(<<>>, ref_aval.shape, <<>>)]
     \* next() on the exhausted index iterator inside the generator
     ELSE IF CountTrue(indexed_dims, rank) > Len(non_slice_idx)
       THEN [ok |-> FALSE, err |-> "RuntimeError",
             indexer |-> NDIndexer(<<>>, ref_aval.shape, <<>>)]
     \* (int_indexer_shape,) = set(...) needs exactly one shape
     ELSE IF non_slice_idx # <<>> /\ Cardinality(int_shapes) # 1
       THEN [ok |-> FALSE, err |-> "ValueError",
             indexer |-> NDIndexer(<<>>, ref_aval.shape, <<>>)]
     ELSE [ok |-> TRUE, err |-> "",
           indexer |-> NDIndexer(splatted, ref_aval.shape,
                                 int_indexer_shape)]

\* _make_index(s): the instructions it emits (none or one) for value s
MakeIndexInstrs(s, types) ==
  IF s[1] = "host"
    THEN <<Instr("arith.constant", <<>>, s[2], "", <<>>, IndexType)>>
    ELSE IF types[s] = IndexType
      THEN <<>>
      ELSE <<Instr("arith.index_cast", <<s>>, 0, "", <<>>, IndexType)>>

\* _make_index mapped over starts, in order: instructions and index values
RECURSIVE MakeIndices(_, _, _)
MakeIndices(starts, types, base) ==
  IF starts = <<>> THEN [instrs |-> <<>>, vals |-> <<>>]
  ELSE LET front == MakeIndices(SubSeq(starts, 1, Len(starts) - 1), types,
                                base)
           s == starts[Len(starts)]
           new == MakeIndexInstrs(s, types)
       IN [instrs |-> front.instrs \o new,
           vals |-> front.vals \o
                    <<IF new = <<>> THEN s
                      ELSE IrVal(base + Len(front.instrs) + 1)>>]

NotMapped(bs, n) == {q \in 1..n : bs[q] # Mapped}
IsMapped(bs, n) == {q \in 1..n : bs[q] = Mapped}

\* the first block-shape position at which next() finds its iterator of
\* n items exhausted (0 when there is none)
Exhausted(bs, n) ==
  LET bad == {p \in 1..Len(bs) :
                bs[p] # Mapped /\ Cardinality(NotMapped(bs, p)) > n}
  IN IF bad = {} THEN 0 ELSE CHOOSE p \in bad : \A q \in bad : p <= q

\* the items first, the fillers of the mapped dimensions after them
InterleaveMappedLast(bs, items, fill) ==
  [p \in 1..Len(bs) |->
     IF p <= Cardinality(NotMapped(bs, Len(bs))) THEN items[p]
     ELSE fill[Len(bs)]]

\* [fill if b is core.mapped else next(items) for b in block_shape]
Interleave(bs, items, fill) ==
  [p \in 1..Len(bs) |->
     IF bs[p] = Mapped THEN fill[p]
                       ELSE items[Cardinality(NotMapped(bs, p))]]

\* list.insert(i, x) with a 0-based position, appending past the end
InsertAt(seq, i, x) ==
  IF i >= Len(seq) THEN Append(seq, x)
  ELSE SubSeq(seq, 1, i) \o <<x>> \o SubSeq(seq, i + 1, Len(seq))

\* the output shape with a 1 inserted at every integer-indexed position
RECURSIVE InsertOnes(_, _, _)
InsertOnes(shape, indices, i) ==
  IF i > Len(indices) THEN shape
  ELSE InsertOnes(IF indices[i].slice THEN shape
                                      ELSE InsertAt(shape, i - 1, 1),
                  indices, i + 1)

\* the index operands of a load/store and the shape of the addressed tile:
\* starts through _make_index, then a literal 0 for every mapped dimension
IndexOperands(ref_block_shape, idx, aval_out, types, base) ==
  LET starts == [i \in 1..Len(idx.indices) |-> idx.indices[i].v]
      made == MakeIndices(starts, types, base)
      nmade == Len(made.instrs)
      stop == Exhausted(ref_block_shape, Len(made.vals))
      nzero == Cardinality(IsMapped(ref_block_shape,
                 IF stop = 0 THEN Len(ref_block_shape) ELSE stop))
      zeros == [k \in 1..nzero |->
                  Instr("arith.constant", <<>>, 0, "", <<>>, IndexType)]
      ones == InsertOnes(aval_out.shape, idx.indices, 1)
  IN [stop |-> stop,
      instrs |-> made.instrs \o zeros,
      indices |-> IF stop # 0 THEN <<>>
                  ELSE Interleave(ref_block_shape, made.vals,
                         [p \in 1..Len(ref_block_shape) |->
                            IrVal(base + nmade
                              + Cardinality(IsMapped(ref_block_shape, p)))]),
      ones |-> ones,
      shape_stop |-> Exhausted(ref_block_shape, Len(ones)),
      tile_shape |-> IF Exhausted(ref_block_shape, Len(ones)) # 0 THEN <<>>
                     ELSE Interleave(ref_block_shape, ones,
                            [p \in 1..Len(ref_block_shape) |-> 1])]

NonScalarIntIndex(idx) ==
  \E i \in 1..Len(idx.indices) :
    ~idx.indices[i].slice /\ idx.indices[i].shape # <<>>

\* the load rule once its indexer has been accepted
LoadBody(ctx, ref, idx, types, base) ==
  LET is_smem_load == types[ref].memory_space = "smem"
      ref_aval == ctx.avals_in[1]
      aval_out == ctx.avals_out[1]
      ops == IndexOperands(ctx.block_shapes[1], idx, aval_out, types, base)
      n == base + Len(ops.instrs)
      load_type == aval_to_ir_type(
                     ShapedArray(ops.tile_shape, aval_out.dtype), "")
      vload == Instr("vector.load", <<ref>> \o ops.indices, 0, "", <<>>,
                     load_type)
  IN IF ops.stop # 0
       THEN Raised("StopIteration", <<>>, ops.instrs)
     ELSE IF Len(ops.ones) # Len(ref_aval.shape)
       THEN Raised("AssertionError", <<>>, ops.instrs)
     ELSE IF ops.shape_stop # 0
       THEN Raised("StopIteration", <<>>, ops.instrs)
     ELSE IF is_smem_load
       THEN IF aval_out.shape # <<>>
              THEN Raised("ValueError", <<"SMEM">>, ops.instrs)
              ELSE Returned(
                     ops.instrs \o
                     <<Instr("memref.load", <<ref>> \o ops.indices, 0, "",
                             <<>>, aval_to_ir_type(aval_out, ""))>>,
                     <<IrVal(n + 1)>>)
     ELSE IF ops.tile_shape = aval_out.shape
       THEN Returned(ops.instrs \o <<vload>>, <<IrVal(n + 1)>>)
     ELSE Returned(
            ops.instrs \o
            <<vload,
              Instr("vector.shape_cast", <<IrVal(n + 1)>>, 0, "", <<>>,
                    VectorType(aval_out.shape, aval_out.dtype))>>,
            <<IrVal(n + 2)>>)

\* a load rule that lets a masked load through
_load_ignores_mask(ctx, ref, idx, types, masked, base) ==
  IF ctx.block_shapes[1] \in {<<>>, NoneBlockShape}
    THEN Raised("NotImplementedError", <<"()-shaped Ref">>, <<>>)
  ELSE IF NonScalarIntIndex(idx)
    THEN Raised("ValueError", <<"int indexing">>, <<>>)
  ELSE LoadBody(ctx, ref, idx, types, base)

_load_lowering_rule(ctx, ref, idx, types, masked, base) ==
  IF masked THEN Raised("NotImplementedError", <<>>, <<>>)
  ELSE IF ctx.block_shapes[1] \in {<<>>, NoneBlockShape}
    THEN Raised("NotImplementedError", <<"()-shaped Ref">>, <<>>)
  ELSE IF NonScalarIntIndex(idx)
    THEN Raised("ValueError", <<"int indexing">>, <<>>)
  ELSE LoadBody(ctx, ref, idx, types, base)

_get_lowering_rule(ctx, ref, non_slice_idx, indexed_dims, types, base) ==
  LET ref_aval == ctx.avals_in[1]
      conv == _convert_flat_indexing_to_indexer(
                ref_aval, non_slice_idx, Tail(ctx.avals_in), indexed_dims)
  IN IF ~conv.ok THEN Raised(conv.err, <<>>, <<>>)
     ELSE _load_lowering_rule(ctx, ref, conv.indexer, types, FALSE, base)

\* the swap rule after the masked test
SwapBody(ctx, ref, val, idx, types, base) ==
  LET ref_block_shape == ctx.block_shapes[1]
      val_aval == ctx.avals_in[2]
      aval_out == ctx.avals_out[1]
      const == ir_constant(val[2], val_aval.dtype,
                           IrType("scalar", <<>>, val_aval.dtype, ""))
      pre == IF IsIrValue(val) THEN <<>> ELSE <<const.instr>>
      val0 == IF IsIrValue(val) THEN val ELSE IrVal(base + 1)
      ops == IndexOperands(ref_block_shape, idx, aval_out, types,
                           base + Len(pre))
      n == base + Len(pre) + Len(ops.instrs)
      mem_type == VectorType(ops.tile_shape, aval_out.dtype)
      load == Instr("vector.load", <<ref>> \o ops.indices, 0, "", <<>>,
                    mem_type)
      reshaped == ops.tile_shape # aval_out.shape
      casts == IF reshaped
                 THEN <<Instr("vector.shape_cast", <<IrVal(n + 1)>>, 0, "",
                              <<>>, VectorType(aval_out.shape,
                                               aval_out.dtype)),
                        Instr("vector.shape_cast", <<val0>>, 0, "", <<>>,
                              mem_type)>>
                 ELSE <<>>
      result == IF reshaped THEN IrVal(n + 2) ELSE IrVal(n + 1)
      val1 == IF reshaped THEN IrVal(n + 3) ELSE val0
      store == Instr("vector.store", <<val1, ref>> \o ops.indices, 0, "",
                     <<>>, NoType)
  IN IF ~IsIrValue(val) /\ ~const.ok
       THEN Raised("NotImplementedError", <<val_aval.dtype>>, <<>>)
     ELSE IF NonScalarIntIndex(idx)
       THEN Raised("ValueError", <<"int indexing">>, pre)
     ELSE IF ref_block_shape \in {<<>>, NoneBlockShape}
       THEN Raised("NotImplementedError", <<"()-shaped Ref">>, pre)
     ELSE IF ops.stop # 0 \/ ops.shape_stop # 0
       THEN Raised("StopIteration", <<>>, pre \o ops.instrs)
     ELSE Returned(pre \o ops.instrs \o <<load>> \o casts \o <<store>>,
                   <<result>>)

\* a swap that hands back the value it stores
_masked_swap_returns_stored(ctx, ref, val, idx, types, masked, base) ==
  LET r == SwapBody(ctx, ref, val, idx, types, base)
  IN IF masked THEN Raised("NotImplementedError", <<>>, <<>>)
     ELSE IF r.ok THEN [r EXCEPT !.out = <<r.instrs[Len(r.instrs)].ins[1]>>]
     ELSE r

_masked_swap_lowering_rule(ctx, ref, val, idx, types, masked, base) ==
  IF masked THEN Raised("NotImplementedError", <<>>, <<>>)
  ELSE SwapBody(ctx, ref, val, idx, types, base)

_swap_lowering_rule(ctx, ref, val, non_slice_idx, indexed_dims, types, base) ==
  LET ref_aval == ctx.avals_in[1]
      conv == _convert_flat_indexing_to_indexer(
                ref_aval, non_slice_idx, Tail(Tail(ctx.avals_in)),
                indexed_dims)
  IN IF ~conv.ok THEN Raised(conv.err, <<>>, <<>>)
     ELSE _masked_swap_lowering_rule(ctx, ref, val, conv.indexer, types,
                                     FALSE, base)

----------------------------------------------------------------------------
(* reduce_max / reduce_sum *)

\* the accumulator constant and the multi-dimensional reduction
ReduceInstrs(kind, identity, x, axes, out_type, base) ==
  <<Instr("arith.constant", <<>>, 0, identity, <<>>, out_type),
    Instr("vector.multi_reduction", <<x, IrVal(base + 1)>>, 0, kind, axes,
          out_type)>>

\* reduce_max that goes on to emit the signed-integer reduction
_reduce_max_signed_emitted(ctx, x, axes, base) ==
  LET x_aval == ctx.avals_in[1]
      out_type == aval_to_ir_type(ctx.avals_out[1], "")
  IN IF floating(x_aval.dtype)
       THEN Returned(ReduceInstrs("maxf", "-inf", x, axes, out_type, base),
                     <<IrVal(base + 2)>>)
     ELSE IF signedinteger(x_aval.dtype)
       THEN Returned(ReduceInstrs("maxsi", "min", x, axes, out_type, base),
                     <<IrVal(base + 2)>>)
     ELSE IF unsignedinteger(x_aval.dtype)
       THEN Raised("NotImplementedError", <<>>, <<>>)
     ELSE Raised("UnboundLocalError", <<"identity">>, <<>>)

_reduce_max_lowering_rule(ctx, x, axes, base) ==
  LET x_aval == ctx.avals_in[1]
      out_type == aval_to_ir_type(ctx.avals_out[1], "")
  IN IF floating(x_aval.dtype)
       THEN Returned(ReduceInstrs("maxf", "-inf", x, axes, out_type, base),
                     <<IrVal(base + 2)>>)
     ELSE IF signedinteger(x_aval.dtype)
       THEN Raised("NotImplementedError", <<>>, <<>>)
     ELSE IF unsignedinteger(x_aval.dtype)
       THEN Raised("NotImplementedError", <<>>, <<>>)
     \* no branch taken (bool): `identity` is read before assignment
     ELSE Raised("UnboundLocalError", <<"identity">>, <<>>)

_reduce_sum_lowering_rule(ctx, x, axes, base) ==
  LET x_aval == ctx.avals_in[1]
      out_type == aval_to_ir_type(ctx.avals_out[1], "")
  IN IF floating(x_aval.dtype)
       THEN Returned(ReduceInstrs("add", "0.0", x, axes, out_type, base),
                     <<IrVal(base + 2)>>)
     ELSE IF signedinteger(x_aval.dtype)
       THEN Raised("NotImplementedError", <<>>, <<>>)
     ELSE IF unsignedinteger(x_aval.dtype)
       THEN Raised("NotImplementedError", <<>>, <<>>)
     ELSE Raised("UnboundLocalError", <<"identity">>, <<>>)

----------------------------------------------------------------------------
(* dot_general *)

Max(a, b) == IF a >= b THEN a ELSE b

\* numpy broadcasting of two shapes (right-aligned; a size-1 entry stretches)
BroadcastShapes(a, b) ==
  LET n == Max(Len(a), Len(b))
      at(s, i) == IF i > n - Len(s) THEN s[i - (n - Len(s))] ELSE 1
  IN [ok |-> \A i \in 1..n : at(a, i) = at(b, i) \/ at(a, i) = 1
                              \/ at(b, i) = 1,
      shape |-> [i \in 1..n |-> Max(at(a, i), at(b, i))]]

\* the matrix-vector path: broadcast, multiply, reduce over axis 1, reshape
DotMatVec(ctx, x, y, zero, out_type, base) ==
  LET in0 == ctx.avals_in[1]
      in1 == ctx.avals_in[2]
      differ == in0.shape # in1.shape
      bc == BroadcastShapes(in0.shape, ctx.avals_out[1].shape)
      bcast_type == VectorType(bc.shape, ctx.avals_out[1].dtype)
      \* a shape tuple never equals the VectorType it is compared with,
      \* so both operands are broadcast whenever the shapes differ
      bcasts == IF differ
                  THEN <<Instr("vector.broadcast", <<x>>, 0, "", <<>>,
                               bcast_type),
                         Instr("vector.broadcast", <<y>>, 0, "", <<>>,
                               bcast_type)>>
                  ELSE <<>>
      n == base + Len(bcasts)
      x1 == IF differ THEN IrVal(base + 1) ELSE x
      y1 == IF differ THEN IrVal(base + 2) ELSE y
      red_type == aval_to_ir_type(ShapedArray(<<in0.shape[1]>>, in0.dtype),
                                  "")
  IN IF differ /\ ~bc.ok
       THEN Raised("ValueError", <<"broadcast_shapes">>, <<>>)
       ELSE Returned(
              bcasts \o
              <<Instr("arith.constant", <<>>, 0, zero, <<>>, red_type),
                Instr("arith.mulf", <<x1, y1>>, 0, "", <<>>,
                      IF differ THEN bcast_type
                                ELSE aval_to_ir_type(in0, "")),
                Instr("vector.multi_reduction",
                      <<IrVal(n + 2), IrVal(n + 1)>>, 0, "add", <<1>>,
                      red_type),
                Instr("vector.shape_cast", <<IrVal(n + 3)>>, 0, "", <<>>,
                      out_type)>>,
              <<IrVal(n + 4)>>)

\* the structured contraction; the precision is examined after the
\* contraction has been built
DotContraction(x, y, lhs_dims, rhs_dims, precision, zero, out_type, base) ==
  LET out_tile == Instr("arith.constant", <<>>, 0, zero, <<>>, out_type)
      bound == lhs_dims \in {<<0>>, <<1>>} /\ rhs_dims \in {<<0>>, <<1>>}
      p == IF precision = <<>> THEN "None" ELSE precision[1]
      contraction(attr) ==
        Instr("vector.contract", <<x, y, IrVal(base + 1)>>, 0, attr,
              lhs_dims \o rhs_dims, out_type)
  IN IF ~bound
       THEN Raised("UnboundLocalError", <<"dim_attr">>, <<out_tile>>)
     ELSE IF precision # <<>> /\ precision[1] # precision[2]
       THEN Raised("NotImplementedError", <<"Per-operand dot precision">>,
                   <<out_tile, contraction("")>>)
     ELSE IF p \in {"None", "DEFAULT"}
       THEN Returned(<<out_tile, contraction("")>>, <<IrVal(base + 2)>>)
     ELSE IF p = "HIGHEST"
       THEN Returned(<<out_tile, contraction("fp32")>>, <<IrVal(base + 2)>>)
     ELSE Raised("NotImplementedError", <<"Unsupported dot precision", p>>,
                 <<out_tile, contraction("")>>)

DotGeneral(ctx, x, y, dimension_numbers, precision, base, bad_rank) ==
  LET lhs_dims == dimension_numbers[1]
      rhs_dims == dimension_numbers[2]
      aval_out == ctx.avals_out[1]
      out_type == aval_to_ir_type(aval_out, "")
      zero == IF aval_out.dtype = "float32" THEN "0.0:f32" ELSE "0.0:f16"
  IN IF aval_out.dtype \notin {"float32", "float16"}
       THEN Raised("NotImplementedError", <<aval_out.dtype>>, <<>>)
     ELSE IF bad_rank
       THEN Raised("NotImplementedError", <<"avals_in">>, <<>>)
     ELSE IF lhs_dims = <<1>> /\ rhs_dims = <<1>>
             /\ ctx.avals_in[2].shape[1] = 1
       THEN DotMatVec(ctx, x, y, zero, out_type, base)
     ELSE DotContraction(x, y, lhs_dims, rhs_dims, precision, zero,
                         out_type, base)

\* dot_general that only rejects operands of rank greater than 2
_dot_general_rank_at_most_2(ctx, x, y, dimension_numbers, precision, base) ==
  DotGeneral(ctx, x, y, dimension_numbers, precision, base,
             \E i \in 1..Len(ctx.avals_in) : Len(ctx.avals_in[i].shape) > 2)

_dot_general_lowering_rule(ctx, x, y, dimension_numbers, precision, base) ==
  DotGeneral(ctx, x, y, dimension_numbers, precision, base,
             \E i \in 1..Len(ctx.avals_in) : Len(ctx.avals_in[i].shape) # 2)

----------------------------------------------------------------------------
(* Elementwise rules *)

\* _bcast: host operands become constants (index-typed when the other
\* operand is), then each operand whose shape differs from the output shape
\* is broadcast; xt and yt are the hardware types of x and y
_bcast(x, y, xt, yt, x_aval, y_aval, out_aval, base) ==
  LET x_host == x[1] = "host"
      y_host == y[1] = "host"
      x_type == IF x_host
                  THEN IF ~y_host /\ yt = IndexType THEN yt
                       ELSE aval_to_ir_type(ShapedArray(<<>>, x_aval.dtype),
                                            "")
                  ELSE xt
      x_const == IF x_host
                   THEN <<Instr("arith.constant", <<>>, x[2], "", <<>>,
                                x_type)>>
                   ELSE <<>>
      x1 == IF x_host THEN IrVal(base + 1) ELSE x
      y_type == IF y_host
                  THEN IF x_type = IndexType THEN x_type
                       ELSE aval_to_ir_type(ShapedArray(<<>>, y_aval.dtype),
                                            "")
                  ELSE yt
      y_const == IF y_host
                   THEN <<Instr("arith.constant", <<>>, y[2], "", <<>>,
                                y_type)>>
                   ELSE <<>>
      n1 == base + Len(x_const) + Len(y_const)
      y1 == IF y_host THEN IrVal(n1) ELSE y
      bcast_shape == VectorType(out_aval.shape, out_aval.dtype)
      x_bcast == IF x_aval.shape # out_aval.shape
                   THEN <<Instr("vector.broadcast", <<x1>>, 0, "", <<>>,
                                bcast_shape)>>
                   ELSE <<>>
      x2 == IF x_bcast # <<>> THEN IrVal(n1 + 1) ELSE x1
      y_bcast == IF y_aval.shape # out_aval.shape
                   THEN <<Instr("vector.broadcast", <<y1>>, 0, "", <<>>,
                                bcast_shape)>>
                   ELSE <<>>
      y2 == IF y_bcast # <<>> THEN IrVal(n1 + Len(x_bcast) + 1) ELSE y1
  IN [instrs |-> x_const \o y_const \o x_bcast \o y_bcast,
      x |-> x2, y |-> y2,
      xt |-> IF x_bcast # <<>> THEN bcast_shape ELSE x_type,
      yt |-> IF y_bcast # <<>> THEN bcast_shape ELSE y_type]

_add_lowering_rule(ctx, x, y, xt, yt, base) ==
  LET b == _bcast(x, y, xt, yt, ctx.avals_in[1], ctx.avals_in[2],
                  ctx.avals_out[1], base)
      aval_out == ctx.avals_out[1]
      n == base + Len(b.instrs)
  IN IF integer(aval_out.dtype)
       THEN Returned(b.instrs \o <<Instr("arith.addi", <<b.x, b.y>>, 0, "",
                                         <<>>, b.xt)>>, <<IrVal(n + 1)>>)
     ELSE IF floating(aval_out.dtype)
       THEN Returned(b.instrs \o <<Instr("arith.addf", <<b.x, b.y>>, 0, "",
                                         <<>>, b.xt)>>, <<IrVal(n + 1)>>)
     ELSE Raised("NotImplementedError", <<aval_out.dtype>>, b.instrs)

\* the instruction op applied to the two prepared operands; its result has
\* the type of the left operand
Binary(op, b, base) ==
  Returned(b.instrs \o <<Instr(op, <<b.x, b.y>>, 0, "", <<>>, b.xt)>>,
           <<IrVal(base + Len(b.instrs) + 1)>>)

_max_lowering_rule(ctx, x, y, xt, yt, base) ==
  LET b == _bcast(x, y, xt, yt, ctx.avals_in[1], ctx.avals_in[2],
                  ctx.avals_out[1], base)
      aval_out == ctx.avals_out[1]
  IN IF signedinteger(aval_out.dtype) THEN Binary("arith.maxsi", b, base)
     ELSE IF unsignedinteger(aval_out.dtype)
       THEN Binary("arith.maxui", b, base)
     ELSE IF floating(aval_out.dtype) THEN Binary("arith.maxf", b, base)
     ELSE Raised("NotImplementedError", <<aval_out.dtype>>, b.instrs)

\* after _bcast no operand is a host value any more, so the second
\* conversion of sub and mul never applies
_sub_lowering_rule(ctx, x, y, xt, yt, base) ==
  LET b == _bcast(x, y, xt, yt, ctx.avals_in[1], ctx.avals_in[2],
                  ctx.avals_out[1], base)
      aval_out == ctx.avals_out[1]
  IN IF integer(aval_out.dtype) THEN Binary("arith.subi", b, base)
     ELSE IF floating(aval_out.dtype) THEN Binary("arith.subf", b, base)
     ELSE Raised("NotImplementedError", <<aval_out.dtype>>, b.instrs)

_mul_lowering_rule(ctx, x, y, xt, yt, base) ==
  LET b == _bcast(x, y, xt, yt, ctx.avals_in[1], ctx.avals_in[2],
                  ctx.avals_out[1], base)
      aval_out == ctx.avals_out[1]
  IN IF integer(aval_out.dtype) THEN Binary("arith.muli", b, base)
     ELSE IF floating(aval_out.dtype) THEN Binary("arith.mulf", b, base)
     ELSE Raised("NotImplementedError", <<aval_out.dtype>>, b.instrs)

\* div and rem test jnp.integer first, which every signed and unsigned
\* integer dtype satisfies
_div_lowering_rule(ctx, x, y, xt, yt, base) ==
  LET b == _bcast(x, y, xt, yt, ctx.avals_in[1], ctx.avals_in[2],
                  ctx.avals_out[1], base)
      aval_out == ctx.avals_out[1]
  IN IF integer(aval_out.dtype) THEN Binary("arith.divsi", b, base)
     ELSE IF unsignedinteger(aval_out.dtype)
       THEN Binary("arith.divui", b, base)
     ELSE IF floating(aval_out.dtype) THEN Binary("arith.divf", b, base)
     ELSE Raised("NotImplementedError", <<aval_out.dtype>>, b.instrs)

_rem_lowering_rule(ctx, x, y, xt, yt, base) ==
  LET b == _bcast(x, y, xt, yt, ctx.avals_in[1], ctx.avals_in[2],
                  ctx.avals_out[1], base)
      aval_out == ctx.avals_out[1]
  IN IF integer(aval_out.dtype) THEN Binary("arith.remsi", b, base)
     ELSE IF unsignedinteger(aval_out.dtype)
       THEN Binary("arith.remui", b, base)
     ELSE IF floating(aval_out.dtype) THEN Binary("arith.remf", b, base)
     ELSE Raised("NotImplementedError", <<aval_out.dtype>>, b.instrs)

_cmpi_lowering_types(prim) ==
  CASE prim = "eq" -> 0 [] prim = "ne" -> 1 [] prim = "lt" -> 2
    [] prim = "le" -> 3 [] prim = "gt" -> 4 [] prim = "ge" -> 5

\* the float predicate table has entries for eq and ne only
_cmpf_lowering_types ==
  [prim \in {"eq", "ne"} |-> IF prim = "eq" THEN 1 ELSE 6]

\* comparisons broadcast to the broadcast of the two operand shapes. Once x
\* has been broadcast the name bcast_shape holds a vector type: the shape of
\* y never equals it, and building the list of its dimensions fails
_cmp_lowering_rule(prim, ctx, x, y, xt, yt, base) ==
  LET x_aval == ctx.avals_in[1]
      y_aval == ctx.avals_in[2]
      y_const == IF y[1] = "host"
                   THEN <<Instr("arith.constant", <<>>, y[2], "", <<>>,
                                dtype_to_ir_type(y_aval.dtype))>>
                   ELSE <<>>
      y1 == IF y[1] = "host" THEN IrVal(base + 1) ELSE y
      x_const == IF x[1] = "host"
                   THEN <<Instr("arith.constant", <<>>, x[2], "", <<>>,
                                dtype_to_ir_type(x_aval.dtype))>>
                   ELSE <<>>
      n1 == base + Len(y_const) + Len(x_const)
      x1 == IF x[1] = "host" THEN IrVal(n1) ELSE x
      x_type == IF x[1] = "host" THEN dtype_to_ir_type(x_aval.dtype) ELSE xt
      bc == BroadcastShapes(x_aval.shape, y_aval.shape)
      x_differs == x_aval.shape # bc.shape
      x_bcast == IF x_differs
                   THEN <<Instr("vector.broadcast", <<x1>>, 0, "", <<>>,
                                VectorType(bc.shape, x_aval.dtype))>>
                   ELSE <<>>
      y_bcast == IF y_aval.shape # bc.shape
                   THEN <<Instr("vector.broadcast", <<y1>>, 0, "", <<>>,
                                VectorType(bc.shape, y_aval.dtype))>>
                   ELSE <<>>
      y2 == IF y_bcast # <<>> THEN IrVal(n1 + 1) ELSE y1
      pre == y_const \o x_const \o y_bcast
      cmp(op, pred) ==
        Returned(pre \o <<Instr(op, <<x1, y2>>, pred, "", <<>>,
                                IrType(x_type.kind, x_type.shape, "bool",
                                       ""))>>,
                 <<IrVal(base + Len(pre) + 1)>>)
  IN IF ~bc.ok
       THEN Raised("ValueError", <<"broadcast_shapes">>, y_const \o x_const)
     ELSE IF x_differs
       THEN Raised("TypeError", <<"VectorType">>,
                   y_const \o x_const \o x_bcast)
     ELSE IF integer(x_aval.dtype) /\ integer(y_aval.dtype)
       THEN cmp("arith.cmpi", _cmpi_lowering_types(prim))
     ELSE IF floating(x_aval.dtype) /\ floating(y_aval.dtype)
       THEN IF prim \in DOMAIN _cmpf_lowering_types
              THEN cmp("arith.cmpf", _cmpf_lowering_types[prim])
              ELSE Raised("KeyError", <<prim>>, pre)
     ELSE Raised("NotImplementedError", <<x_aval.dtype, y_aval.dtype>>, pre)

\* and / or hand their operands to the instruction as they are; an operand
\* that is not an IR value is refused by the instruction builder
_and_lowering_rule(ctx, lhs, rhs, xt, yt, base) ==
  IF lhs[1] = "host" \/ rhs[1] = "host"
    THEN Raised("TypeError", <<"operand">>, <<>>)
    ELSE Returned(<<Instr("arith.andi", <<lhs, rhs>>, 0, "", <<>>, xt)>>,
                  <<IrVal(base + 1)>>)

_or_lowering_rule(ctx, lhs, rhs, xt, yt, base) ==
  IF lhs[1] = "host" \/ rhs[1] = "host"
    THEN Raised("TypeError", <<"operand">>, <<>>)
    ELSE Returned(<<Instr("arith.ori", <<lhs, rhs>>, 0, "", <<>>, xt)>>,
                  <<IrVal(base + 1)>>)

\* xor and the shifts turn host operands into constants of the operand's
\* own dtype (a Python int becomes int32) and emit the instruction
HostToConstant(op, x, y, xt, yt, base) ==
  LET x_const == IF x[1] = "host"
                   THEN <<ir_constant(x[2], "int",
                                      dtype_to_ir_type("int32")).instr>>
                   ELSE <<>>
      y_const == IF y[1] = "host"
                   THEN <<ir_constant(y[2], "int",
                                      dtype_to_ir_type("int32")).instr>>
                   ELSE <<>>
      n == base + Len(x_const) + Len(y_const)
  IN Returned(x_const \o y_const \o
              <<Instr(op,
                      <<IF x[1] = "host" THEN IrVal(base + 1) ELSE x,
                        IF y[1] = "host" THEN IrVal(n) ELSE y>>, 0, "", <<>>,
                      IF x[1] = "host" THEN dtype_to_ir_type("int32")
                                       ELSE xt)>>,
              <<IrVal(n + 1)>>)

_xor_lowering_rule(ctx, x, y, xt, yt, base) ==
  HostToConstant("arith.xori", x, y, xt, yt, base)

_shift_left_lowering_rule(ctx, x, d, xt, dt, base) ==
  HostToConstant("arith.shli", x, d, xt, dt, base)

_shift_right_logical_lowering_rules(ctx, x, d, xt, dt, base) ==
  HostToConstant("arith.shrui", x, d, xt, dt, base)

CmpPrims == {"eq", "ne", "lt", "le", "gt", "ge"}
BinaryPrims ==
  {"add", "sub", "mul", "div", "rem", "max", "and", "or", "xor",
   "shift_left", "shift_right_logical"} \cup CmpPrims

\* lowering_rules[prim] for the elementwise binary primitives
binary_lowering_rule(prim, ctx, x, y, xt, yt, base) ==
  CASE prim = "add" -> _add_lowering_rule(ctx, x, y, xt, yt, base)
    [] prim = "sub" -> _sub_lowering_rule(ctx, x, y, xt, yt, base)
    [] prim = "mul" -> _mul_lowering_rule(ctx, x, y, xt, yt, base)
    [] prim = "div" -> _div_lowering_rule(ctx, x, y, xt, yt, base)
    [] prim = "rem" -> _rem_lowering_rule(ctx, x, y, xt, yt, base)
    [] prim = "max" -> _max_lowering_rule(ctx, x, y, xt, yt, base)
    [] prim \in CmpPrims -> _cmp_lowering_rule(prim, ctx, x, y, xt, yt, base)
    [] prim = "and" -> _and_lowering_rule(ctx, x, y, xt, yt, base)
    [] prim = "or" -> _or_lowering_rule(ctx, x, y, xt, yt, base)
    [] prim = "xor" -> _xor_lowering_rule(ctx, x, y, xt, yt, base)
    [] prim = "shift_left" ->
         _shift_left_lowering_rule(ctx, x, y, xt, yt, base)
    [] prim = "shift_right_logical" ->
         _shift_right_logical_lowering_rules(ctx, x, y, xt, yt, base)

----------------------------------------------------------------------------
(* Rule-level specification: one rule invocation on enumerated inputs *)

DimSizes == {4, 8}
Shapes == UNION {[1..r -> DimSizes] : r \in 0..MaxRank}

RECURSIVE SortedSeq(_)
SortedSeq(S) ==
  IF S = {} THEN <<>>
  ELSE LET m == CHOOSE x \in S : \A y \in S : x <= y
       IN <<m>> \o SortedSeq(S \ {m})

\* the entries of seq at the (1-based) positions in the set keep, in order
RECURSIVE Pick(_, _)
Pick(seq, keep) ==
  IF seq = <<>> THEN <<>>
  ELSE Pick(SubSeq(seq, 1, Len(seq) - 1), keep)
         \o (IF Len(seq) \in keep THEN <<seq[Len(seq)]>> ELSE <<>>)

\* upstream abstract evaluation of a reduction: the reduced axes disappear
ReduceCalls ==
  UNION {
    {[rule |-> r,
      ctx |-> RuleContext(
                <<ShapedArray(s, d)>>,
                <<ShapedArray(Pick(s, {i \in 1..Len(s) : (i - 1) \notin ax}),
                              d)>>,
                <<NoneBlockShape>>),
      args |-> <<ArgVal(0)>>,
      axes |-> SortedSeq(ax)] :
        r \in {"reduce_max", "reduce_sum"}, d \in DTypes,
        ax \in (SUBSET (0..(Len(s) - 1))) \ {{}}} : s \in Shapes \ {<<>>}}

\* operand shapes of a contraction: every shape of rank 1 and 2 over the
\* sizes 1 and 8, and one shape of each larger rank
DotShapes ==
  UNION {[1..r -> {1, 8}] : r \in 1..2}
    \cup {[i \in 1..r |-> 8] : r \in 3..(MaxRank + 1)}

Precisions ==
  {<<>>, <<"DEFAULT", "DEFAULT">>, <<"HIGHEST", "HIGHEST">>,
   <<"HIGH", "HIGH">>, <<"DEFAULT", "HIGHEST">>}

\* contracting dimensions upstream shape checking admits for two operands:
\* none, or one dimension of each operand, of equal size
ContractDims(l, r) ==
  {<<<<>>, <<>>>>}
    \cup {<<<<i - 1>>, <<j - 1>>>> :
            <<i, j>> \in {q \in (1..Len(l)) \X (1..Len(r)) :
                            l[q[1]] = r[q[2]]}}

DotOutShape(l, r, dn) ==
  Pick(l, {i \in 1..Len(l) : <<i - 1>> # dn[1]})
    \o Pick(r, {j \in 1..Len(r) : <<j - 1>> # dn[2]})

DotCalls ==
  UNION {
    {[rule |-> "dot_general",
      ctx |-> RuleContext(
                <<ShapedArray(lr[1], d), ShapedArray(lr[2], d)>>,
                <<ShapedArray(DotOutShape(lr[1], lr[2], dn), d)>>,
                <<NoneBlockShape, NoneBlockShape>>),
      args |-> <<ArgVal(0), ArgVal(1)>>,
      dimension_numbers |-> dn,
      precision |-> p] :
        dn \in ContractDims(lr[1], lr[2]), p \in Precisions,
        d \in {"float32", "float16", "bfloat16", "int32"}} :
    lr \in DotShapes \X DotShapes}

ConvertCalls ==
  {[rule |-> "convert_element_type",
    ctx |-> RuleContext(<<ShapedArray(s, old)>>, <<ShapedArray(s, new)>>,
                        <<NoneBlockShape>>),
    args |-> <<ArgVal(0)>>,
    new_dtype |-> new] : s \in Shapes, old \in DTypes, new \in DTypes}

\* block shapes of a reference: sizes and mapped markers
BlockShapes == UNION {[1..r -> DimSizes \cup {Mapped}] : r \in 0..MaxRank}

\* the shape of the reference seen by the kernel: the unmapped entries
RefShape(bs) == SelectSeq(bs, LAMBDA b : b # Mapped)

\* the memref argument type of a block: mapped entries have size 1
RefType(bs, dtype, ms) ==
  IrType("memref", [i \in 1..Len(bs) |-> IF bs[i] = Mapped THEN 1 ELSE bs[i]],
         dtype, ms)

\* types of the block arguments of the enumerated calls: 0 the reference,
\* 2 an index-typed scalar, 3 an int32 scalar, 4 and 5 int32 vectors
\* (argument 1 is the stored value of a swap)
ArgTypes(bs, dtype, ms) ==
  (ArgVal(0) :> RefType(bs, dtype, ms))
    @@ (ArgVal(2) :> IndexType)
    @@ (ArgVal(3) :> IrType("scalar", <<>>, "int32", ""))
    @@ (ArgVal(4) :> VectorType(<<4>>, "int32"))
    @@ (ArgVal(5) :> VectorType(<<8>>, "int32"))

\* supplied integer indices: value and the shape of its aval
IdxChoices ==
  {<<HostVal(3), <<>>>>, <<ArgVal(2), <<>>>>, <<ArgVal(3), <<>>>>,
   <<ArgVal(4), <<4>>>>, <<ArgVal(5), <<8>>>>}

\* upstream abstract evaluation of get/swap: the integer indexer shape
\* followed by the sizes of the dimensions that are not indexed
SliceOutShape(shape, idx_shapes, indexed_dims) ==
  (IF idx_shapes = <<>> THEN <<>> ELSE idx_shapes[1])
    \o Pick(shape, {d \in 1..Len(shape) : ~indexed_dims[d]})

FlatIndexCalls(rule, vals) ==
  UNION {
    UNION {
      {[rule |-> rule,
        ctx |-> RuleContext(
          <<AbstractRef(RefShape(bs), d)>>
            \o (IF rule = "swap"
                  THEN <<ShapedArray(
                           SliceOutShape(RefShape(bs),
                             [k \in 1..Len(ix) |-> ix[k][2]], id), d)>>
                  ELSE <<>>)
            \o [k \in 1..Len(ix) |-> ShapedArray(ix[k][2], "int32")],
          <<ShapedArray(SliceOutShape(RefShape(bs),
                          [k \in 1..Len(ix) |-> ix[k][2]], id), d)>>,
          <<bs>> \o (IF rule = "swap" THEN <<NoneBlockShape>> ELSE <<>>)
                 \o [k \in 1..Len(ix) |-> NoneBlockShape]),
        args |-> <<ArgVal(0)>>,
        val |-> v,
        non_slice_idx |-> [k \in 1..Len(ix) |-> ix[k][1]],
        indexed_dims |-> id,
        types |-> ArgTypes(bs, d, ms)] :
          ix \in [1..CountTrue(id, Len(id)) -> IdxChoices],
          v \in vals, d \in {"float32", "float16"},
          ms \in {"vmem", "smem"}} :
      id \in [1..Len(RefShape(bs)) -> BOOLEAN]} :
    bs \in BlockShapes}

\* indexer entries of a direct load / masked swap on a dimension of size sz
EntryChoices(sz) ==
  {Slice(HostVal(0), sz), Slice(ArgVal(3), 4), IntIndex(HostVal(3), <<>>),
   IntIndex(ArgVal(2), <<>>), IntIndex(ArgVal(4), <<4>>)}

IndexerShape(entries) ==
  LET ints == {i \in 1..Len(entries) : ~entries[i].slice}
      first == CHOOSE i \in ints : \A j \in ints : i <= j
  IN (IF ints = {} THEN <<>> ELSE entries[first].shape)
       \o [k \in 1..Len(Pick(entries, {i \in 1..Len(entries) :
                                          entries[i].slice})) |->
             Pick(entries, {i \in 1..Len(entries) :
                              entries[i].slice})[k].size]

IndexerCalls(rule, vals) ==
  UNION {
    {[rule |-> rule,
      ctx |-> RuleContext(
                <<AbstractRef(RefShape(bs), d)>>
                  \o (IF rule = "masked_swap"
                        THEN <<ShapedArray(IndexerShape(en), d)>>
                        ELSE <<>>),
                <<ShapedArray(IndexerShape(en), d)>>,
                <<bs>> \o (IF rule = "masked_swap" THEN <<NoneBlockShape>>
                                                   ELSE <<>>)),
      args |-> <<ArgVal(0)>>,
      val |-> v,
      idx |-> NDIndexer(en, RefShape(bs),
                        IF \A i \in 1..Len(en) : en[i].slice THEN <<>>
                        ELSE IndexerShape(<<en[CHOOSE i \in 1..Len(en) :
                                                  ~en[i].slice]>>)),
      masked |-> m,
      types |-> ArgTypes(bs, d, ms)] :
        en \in {e \in [1..Len(RefShape(bs)) ->
                         UNION {EntryChoices(sz) : sz \in DimSizes}] :
                  \A i \in 1..Len(e) :
                    e[i] \in EntryChoices(RefShape(bs)[i])},
        v \in vals, m \in BOOLEAN, d \in {"float32", "float16"},
        ms \in {"vmem", "smem"}} :
    bs \in BlockShapes}

\* operands of an elementwise binary primitive as lax's broadcasting shape
\* rule admits them: a rank-0 operand, or equal ranks whose sizes agree or
\* are 1; a rank-0 second operand may be a Python scalar literal
ElementwiseShapes == UNION {[1..r -> {1, 8}] : r \in 0..MaxRank}

ElementwiseDTypes == {"bool", "int32", "uint32", "float32", "bfloat16"}

ElementwiseCalls ==
  UNION {
    {[rule |-> p,
      ctx |-> RuleContext(
                <<ShapedArray(xy[1], d), ShapedArray(xy[2], d)>>,
                <<ShapedArray(BroadcastShapes(xy[1], xy[2]).shape,
                              IF p \in CmpPrims THEN "bool" ELSE d)>>,
                <<NoneBlockShape, NoneBlockShape>>),
      args |-> <<ArgVal(0), y>>] :
        p \in BinaryPrims, d \in ElementwiseDTypes,
        y \in IF xy[2] = <<>> THEN {ArgVal(1), HostVal(3)}
                              ELSE {ArgVal(1)}} :
    xy \in {q \in ElementwiseShapes \X ElementwiseShapes :
              \/ q[1] = <<>>
              \/ q[2] = <<>>
              \/ Len(q[1]) = Len(q[2]) /\ BroadcastShapes(q[1], q[2]).ok}}

StoredValues == {ArgVal(1), HostVal(7)}

\* the rule invocations explored, one family per rule
InitRules ==
  /\ \/ call \in ConvertCalls
     \/ call \in ReduceCalls
     \/ call \in DotCalls
     \/ call \in FlatIndexCalls("get", {ArgVal(1)})
     \/ call \in FlatIndexCalls("swap", StoredValues)
     \/ call \in IndexerCalls("load", {ArgVal(1)})
     \/ call \in IndexerCalls("masked_swap", StoredValues)
     \/ call \in ElementwiseCalls
  /\ ret = NoRet
  /\ prog = NoProgram
  /\ request = NoRequest
  /\ module = NoModule
  /\ stack = <<>>
  /\ emitted = <<>>
  /\ status = "idle"
  /\ error = NoError
  /\ outvals = NoOutputs
  /\ log = <<>>

ConvertElementType ==
  /\ ret = NoRet
  /\ call.rule = "convert_element_type"
  /\ ret' = _convert_element_type_lowering_rule(call.ctx, call.args[1],
                                                call.new_dtype, 0)
  /\ UNCHANGED <<call, wvars>>

ReduceMax ==
  /\ ret = NoRet
  /\ call.rule = "reduce_max"
  /\ ret' = _reduce_max_lowering_rule(call.ctx, call.args[1], call.axes, 0)
  /\ UNCHANGED <<call, wvars>>

ReduceSum ==
  /\ ret = NoRet
  /\ call.rule = "reduce_sum"
  /\ ret' = _reduce_sum_lowering_rule(call.ctx, call.args[1], call.axes, 0)
  /\ UNCHANGED <<call, wvars>>

DotGeneralRule ==
  /\ ret = NoRet
  /\ call.rule = "dot_general"
  /\ ret' = _dot_general_lowering_rule(call.ctx, call.args[1], call.args[2],
                                       call.dimension_numbers,
                                       call.precision, 0)
  /\ UNCHANGED <<call, wvars>>

GetRule ==
  /\ ret = NoRet
  /\ call.rule = "get"
  /\ ret' = _get_lowering_rule(call.ctx, call.args[1], call.non_slice_idx,
                               call.indexed_dims, call.types, 0)
  /\ UNCHANGED <<call, wvars>>

SwapRule ==
  /\ ret = NoRet
  /\ call.rule = "swap"
  /\ ret' = _swap_lowering_rule(call.ctx, call.args[1], call.val,
                                call.non_slice_idx, call.indexed_dims,
                                call.types, 0)
  /\ UNCHANGED <<call, wvars>>

LoadRule ==
  /\ ret = NoRet
  /\ call.rule = "load"
  /\ ret' = _load_lowering_rule(call.ctx, call.args[1], call.idx,
                                call.types, call.masked, 0)
  /\ UNCHANGED <<call, wvars>>

MaskedSwapRule ==
  /\ ret = NoRet
  /\ call.rule = "masked_swap"
  /\ ret' = _masked_swap_lowering_rule(call.ctx, call.args[1], call.val,
                                       call.idx, call.types, call.masked, 0)
  /\ UNCHANGED <<call, wvars>>

\* the hardware type of operand k of the call (none for a host literal)
OperandType(k) ==
  IF call.args[k][1] = "host" THEN NoType
  ELSE aval_to_ir_type(call.ctx.avals_in[k], "")

ElementwiseRule ==
  /\ ret = NoRet
  /\ call.rule \in BinaryPrims
  /\ ret' = binary_lowering_rule(call.rule, call.ctx, call.args[1],
                                 call.args[2], OperandType(1),
                                 OperandType(2), 0)
  /\ UNCHANGED <<call, wvars>>

NextRules ==
  \/ GetRule
  \/ SwapRule
  \/ LoadRule
  \/ MaskedSwapRule
  \/ ConvertElementType
  \/ DotGeneralRule
  \/ ReduceMax
  \/ ReduceSum
  \/ ElementwiseRule

SpecRules == InitRules /\ [][NextRules]_vars

----------------------------------------------------------------------------
(* Properties of convert_element_type *)

ConvertDone == call.rule = "convert_element_type" /\ ret # NoRet
OldDtype == call.ctx.avals_in[1].dtype

\* C7: convert_element_type is idempotent: when the source dtype equals the
\* target dtype the rule returns its input value itself and emits no
\* instruction, for every dtype (also those with no non-identity cast).
C7_ConvertIdentity ==
  (ConvertDone /\ OldDtype = call.new_dtype)
    => (ret.ok /\ ret.out = <<call.args[1]>> /\ ret.instrs = <<>>)

\* an identity cast of a dtype that has no other supported cast was lowered
C7_Witness ==
  /\ ConvertDone
  /\ OldDtype = "uint32" /\ call.new_dtype = "uint32"
  /\ ret.ok /\ ret.out = <<call.args[1]>>

\* the cast class the dispatch table assigns to a (source, target) pair
CastClass(old, new) ==
  CASE floating(old) /\ floating(new) /\ itemsize(old) < itemsize(new)
         -> "arith.extf"
    [] floating(old) /\ floating(new) /\ itemsize(old) > itemsize(new)
         -> "arith.truncf"
    [] old = "bool" /\ integer(new) -> "arith.extsi"
    [] signedinteger(old) /\ floating(new) -> "arith.sitofp"
    [] signedinteger(old) /\ signedinteger(new)
         /\ itemsize(old) < itemsize(new) -> "arith.extsi"
    [] signedinteger(old) /\ signedinteger(new)
         /\ itemsize(old) > itemsize(new) -> "arith.trunci"
    [] floating(old) /\ signedinteger(new) -> "arith.fptosi"
    [] OTHER -> "none"

\* C8: for every (source, target) dtype pair convert_element_type is the
\* identity, or emits exactly one cast instruction of the class of that
\* pair, or fails with an error naming both dtypes; pairs outside the
\* classes always fail and emit nothing.
C8_CastClassOrFail ==
  ConvertDone =>
    LET old == OldDtype
        new == call.new_dtype
    IN IF old = new THEN ret.ok /\ ret.instrs = <<>>
       ELSE IF CastClass(old, new) = "none"
         THEN /\ ~ret.ok
              /\ ret.instrs = <<>>
              /\ ret.names = <<old, new>>
         ELSE /\ ret.ok
              /\ Len(ret.instrs) = 1
              /\ ret.instrs[1].op = CastClass(old, new)

----------------------------------------------------------------------------
(* Properties of the reductions *)

ReduceDone == call.rule \in {"reduce_max", "reduce_sum"} /\ ret # NoRet

HasOp(instrs, ops) == \E i \in 1..Len(instrs) : instrs[i].op \in ops

\* C9: reduce_sum and reduce_max emit a reduction only for floating-point
\* inputs, with an accumulator of the output type filled with the identity
\* (0 for sum, minus infinity for max); signed- and unsigned-integer inputs
\* fail with an unimplemented error and emit no reduction instruction.
C9_ReduceFloatOnly ==
  ReduceDone =>
    LET d == call.ctx.avals_in[1].dtype
        out_type == aval_to_ir_type(call.ctx.avals_out[1], "")
    IN /\ floating(d) =>
            /\ ret.ok
            /\ Len(ret.instrs) = 2
            /\ ret.instrs[1].op = "arith.constant"
            /\ ret.instrs[1].type = out_type
            /\ ret.instrs[1].attr =
                 (IF call.rule = "reduce_sum" THEN "0.0" ELSE "-inf")
            /\ ret.instrs[2].op = "vector.multi_reduction"
            /\ ret.instrs[2].ins = <<call.args[1], IrVal(1)>>
            /\ ret.instrs[2].dims = call.axes
            /\ ret.out = <<IrVal(2)>>
       /\ ~floating(d) =>
            /\ ~ret.ok
            /\ ~HasOp(ret.instrs, {"vector.multi_reduction"})
       /\ integer(d) => ret.err = "NotImplementedError"

\* a signed-integer reduce_max was rejected and a float one was emitted
C9_Witness ==
  /\ ReduceDone
  /\ call.rule = "reduce_max"
  /\ call.ctx.avals_in[1].dtype = "int32"
  /\ ret.err = "NotImplementedError"

----------------------------------------------------------------------------
(* Properties of dot_general *)

DotDone == call.rule = "dot_general" /\ ret # NoRet
DotRanks == {Len(call.ctx.avals_in[i].shape) : i \in 1..2}
DotFloatOut == call.ctx.avals_out[1].dtype \in {"float32", "float16"}
\* the request is one the rule does not reject for a reason other than the
\* operand ranks and the output dtype: one contracting dimension per operand
\* and no precision request
DotPlain == Len(call.dimension_numbers[1]) = 1 /\ call.precision = <<>>

\* C10 (as claimed): dot_general accepts every 2-operand contraction whose
\* operands have rank 1 or rank 2 and whose output is float32 or float16,
\* and rejects with an unimplemented error any operand of rank above 2.
C10_AcceptsRankAtMost2 ==
  (DotDone /\ DotPlain) =>
    /\ (DotRanks \subseteq {1, 2} /\ DotFloatOut) => ret.ok
    /\ (\E r \in DotRanks : r > 2) =>
         (~ret.ok /\ ret.err = "NotImplementedError")

\* C10 (amended): dot_general accepts a contraction with float32 or float16
\* output only when both operands have exactly 2 dimensions; an operand of
\* any other rank (rank 1 as well as rank above 2) is rejected with an
\* unimplemented error before anything is emitted.
C10_AcceptsRankExactly2 ==
  DotDone =>
    /\ (DotRanks = {2} /\ DotFloatOut /\ DotPlain) => ret.ok
    /\ (DotRanks # {2}) =>
         (~ret.ok /\ ret.err = "NotImplementedError" /\ ret.instrs = <<>>)

\* a float32 contraction with a rank-1 operand was rejected
C10_Witness ==
  /\ DotDone /\ DotPlain /\ DotFloatOut
  /\ 1 \in DotRanks /\ DotRanks \subseteq {1, 2}
  /\ ret.err = "NotImplementedError"

\* the call passes the checks made before either path is chosen: float
\* output, rank-2 operands, one contracting dimension per operand
DotLowerable ==
  /\ DotFloatOut /\ DotRanks = {2}
  /\ Len(call.dimension_numbers[1]) = 1
  /\ Len(call.dimension_numbers[2]) = 1
DotOnMatVecPath ==
  /\ call.dimension_numbers = <<<<1>>, <<1>>>>
  /\ call.ctx.avals_in[2].shape[1] = 1
DotPrecisionAttached ==
  \E i \in 1..Len(ret.instrs) : ret.instrs[i].attr = "fp32"

\* C11: on both paths of dot_general a precision request with two different
\* per-operand values fails; with equal values the accumulation-precision
\* attribute is attached exactly for HIGHEST, none for None / DEFAULT, and
\* any other precision fails.
C11_PrecisionHonoured ==
  (DotDone /\ DotLowerable) =>
    LET p == call.precision
    IN IF p # <<>> /\ p[1] # p[2]
         THEN ~ret.ok /\ ret.err = "NotImplementedError"
       ELSE IF p = <<>> \/ p[1] = "DEFAULT"
         THEN ret.ok /\ ~DotPrecisionAttached
       ELSE IF p[1] = "HIGHEST"
         THEN ret.ok /\ DotPrecisionAttached
       ELSE ~ret.ok /\ ret.err = "NotImplementedError"

----------------------------------------------------------------------------
(* Properties of the elementwise rules *)

ElementwiseDone == call.rule \in BinaryPrims /\ ret # NoRet

\* the instruction of rule r for the signed (si), unsigned (ui) and float (f)
\* element classes
Variant(r, class) ==
  CASE r = "div" -> (CASE class = "si" -> "arith.divsi"
                       [] class = "ui" -> "arith.divui"
                       [] class = "f" -> "arith.divf")
    [] r = "rem" -> (CASE class = "si" -> "arith.remsi"
                       [] class = "ui" -> "arith.remui"
                       [] class = "f" -> "arith.remf")
    [] r = "max" -> (CASE class = "si" -> "arith.maxsi"
                       [] class = "ui" -> "arith.maxui"
                       [] class = "f" -> "arith.maxf")

LastOp == ret.instrs[Len(ret.instrs)].op

\* C12: div, rem and max pick the instruction by the output element type:
\* signed integer -> signed instruction, unsigned integer -> unsigned
\* instruction, float -> float instruction, anything else fails with an
\* unimplemented error.
C12_VariantByOutputDtype ==
  (ElementwiseDone /\ call.rule \in {"div", "rem", "max"}) =>
    LET d == call.ctx.avals_out[1].dtype
    IN IF signedinteger(d)
         THEN ret.ok /\ LastOp = Variant(call.rule, "si")
       ELSE IF unsignedinteger(d)
         THEN ret.ok /\ LastOp = Variant(call.rule, "ui")
       ELSE IF floating(d)
         THEN ret.ok /\ LastOp = Variant(call.rule, "f")
       ELSE ~ret.ok /\ ret.err = "NotImplementedError"

\* v is operand k of the call as the rule sees it: the argument itself, or
\* the constant made from a host literal
IsOperand(v, k) ==
  \/ v = call.args[k]
  \/ /\ call.args[k][1] = "host"
     /\ v[1] = "ir"
     /\ ret.instrs[v[2]].op = "arith.constant"

\* operand k was broadcast to the shape of the output aval
Broadcasted(k) ==
  \E i \in 1..Len(ret.instrs) :
    /\ ret.instrs[i].op = "vector.broadcast"
    /\ IsOperand(ret.instrs[i].ins[1], k)
    /\ ret.instrs[i].type.shape = call.ctx.avals_out[1].shape

\* the call is not refused for its element type
ElementTypeAccepted == ret.err \notin {"NotImplementedError", "KeyError"}

\* C13: every elementwise binary rule, given operands broadcast-compatible
\* with the output shape, broadcasts exactly the operands whose shape
\* differs from the output shape and yields a result of the output shape.
C13_BroadcastToOutputShape ==
  (ElementwiseDone /\ ElementTypeAccepted) =>
    /\ ret.ok
    /\ \A k \in 1..2 :
         Broadcasted(k) <=>
           call.ctx.avals_in[k].shape # call.ctx.avals_out[1].shape
    /\ ret.instrs[Len(ret.instrs)].type.shape = call.ctx.avals_out[1].shape

----------------------------------------------------------------------------
(* Properties of the indexing rules *)

FlatDone == call.rule \in {"get", "swap"} /\ ret # NoRet
IndexingDone ==
  call.rule \in {"get", "swap", "load", "masked_swap"} /\ ret # NoRet

\* the avals of the flat indices of a get / swap call
FlatIdxAvals ==
  IF call.rule = "swap" THEN Tail(Tail(call.ctx.avals_in))
                        ELSE Tail(call.ctx.avals_in)

RebuiltIndexer ==
  _convert_flat_indexing_to_indexer(call.ctx.avals_in[1], call.non_slice_idx,
                                    FlatIdxAvals, call.indexed_dims)

\* C4: for get/swap the rebuilt indexer has exactly one entry per dimension
\* of the reference: an unindexed dimension gets the full slice 0:size, an
\* indexed dimension the next supplied index in order; a reference of shape
\* (8, 8) with block shape (8, 8), indexed_dims = (True, False) and scalar
\* index 3 gives [3, 0:8] and a load whose result has shape (8,).
C4_IndexerPerDimension ==
  FlatDone =>
    LET shape == call.ctx.avals_in[1].shape
        entries == RebuiltIndexer.indexer.indices
        indexed == {d \in 1..Len(shape) : call.indexed_dims[d]}
        ints == Pick(entries, indexed)
    IN /\ RebuiltIndexer.ok =>
            /\ Len(entries) = Len(shape)
            /\ \A d \in (1..Len(shape)) \ indexed :
                 entries[d] = Slice(HostVal(0), shape[d])
            /\ \A d \in indexed : ~entries[d].slice
            /\ [k \in 1..Len(ints) |-> ints[k].v] = call.non_slice_idx
       /\ (/\ call.rule = "get"
           /\ shape = <<8, 8>>
           /\ call.ctx.block_shapes[1] = <<8, 8>>
           /\ call.indexed_dims = <<TRUE, FALSE>>
           /\ call.non_slice_idx = <<HostVal(3)>>
           /\ call.types[ArgVal(0)].memory_space = "vmem") =>
            /\ entries = <<IntIndex(HostVal(3), <<>>), Slice(HostVal(0), 8)>>
            /\ ret.ok
            /\ ret.instrs[Len(ret.instrs)].type.shape = <<8>>
            /\ ret.out = <<IrVal(Len(ret.instrs))>>

\* the (8, 8) example was lowered: indexer [3, 0:8], a load of the (1, 8)
\* tile at indices (3, 0) and a cast to shape (8,)
C4_Witness ==
  /\ FlatDone /\ call.rule = "get"
  /\ call.ctx.avals_in[1].shape = <<8, 8>>
  /\ call.ctx.block_shapes[1] = <<8, 8>>
  /\ call.indexed_dims = <<TRUE, FALSE>>
  /\ call.non_slice_idx = <<HostVal(3)>>
  /\ ret.ok
  /\ \E i \in 1..Len(ret.instrs) :
       /\ ret.instrs[i].op = "vector.load"
       /\ ret.instrs[i].type.shape = <<1, 8>>

Positions(instrs, ops) == {i \in 1..Len(instrs) : instrs[i].op \in ops}

SwapDone == call.rule \in {"swap", "masked_swap"} /\ ret # NoRet

\* C5: the swap rule emits the load of the addressed tile before the store
\* to the same indices and returns that loaded pre-store value (reshaped to
\* the logical output shape when the tile shape differs), never the value
\* being stored; exactly one store is emitted.
C5_SwapLoadsBeforeStore ==
  (SwapDone /\ ret.ok) =>
    LET loads == Positions(ret.instrs, {"vector.load"})
        stores == Positions(ret.instrs, {"vector.store"})
        l == CHOOSE i \in loads : TRUE
        st == CHOOSE i \in stores : TRUE
        out_shape == call.ctx.avals_out[1].shape
        r == ret.out[1]
    IN /\ Cardinality(loads) = 1
       /\ Cardinality(stores) = 1
       /\ l < st
       /\ st = Len(ret.instrs)
       /\ Tail(ret.instrs[st].ins) = ret.instrs[l].ins
       /\ r # ret.instrs[st].ins[1]
       /\ r[1] = "ir"
       /\ IF ret.instrs[l].type.shape = out_shape
            THEN r = IrVal(l)
            ELSE /\ ret.instrs[r[2]].op = "vector.shape_cast"
                 /\ ret.instrs[r[2]].ins = <<IrVal(l)>>
                 /\ ret.instrs[r[2]].type.shape = out_shape

\* a swap through an integer index stored and returned the reshaped
\* pre-store value
C5_Witness ==
  /\ SwapDone /\ ret.ok
  /\ call.rule = "swap"
  /\ TRUE \in {call.indexed_dims[d] : d \in 1..Len(call.indexed_dims)}
  /\ ret.instrs[ret.out[1][2]].op = "vector.shape_cast"
  /\ ret.instrs[Len(ret.instrs)].op = "vector.store"

\* the unsupported indexing sub-cases of the claim
IdxIsMasked == call.rule \in {"load", "masked_swap"} /\ call.masked
IdxZeroRank == call.ctx.block_shapes[1] = <<>>
IdxNonScalarInt ==
  IF call.rule \in {"get", "swap"}
    THEN \E k \in 1..Len(FlatIdxAvals) : FlatIdxAvals[k].shape # <<>>
    ELSE NonScalarIntIndex(call.idx)
IdxSmemVector ==
  /\ call.rule \in {"get", "load"}
  /\ call.types[ArgVal(0)].memory_space = "smem"
  /\ call.ctx.avals_out[1].shape # <<>>

\* C6: load and swap reject every unsupported indexing sub-case (masked,
\* zero-rank block shape, non-scalar integer index, vector result of an SMEM
\* load) with a failure and without emitting any load or store.
C6_UnsupportedIndexingRejected ==
  (IndexingDone
     /\ (IdxIsMasked \/ IdxZeroRank \/ IdxNonScalarInt \/ IdxSmemVector)) =>
    /\ ~ret.ok
    /\ ~HasOp(ret.instrs, {"vector.load", "memref.load", "vector.store"})

\* a vector-shaped load from SMEM was rejected after its index operands
\* had been emitted, and a masked load was rejected
C6_Witness ==
  /\ IndexingDone /\ IdxSmemVector
  /\ ~IdxIsMasked /\ ~IdxZeroRank /\ ~IdxNonScalarInt
  /\ ret.err = "ValueError"
  /\ ret.instrs # <<>>

----------------------------------------------------------------------------
(* Programs: jax_core atoms, equations and jaxprs *)

Var(n, aval) == [lit |-> FALSE, id |-> n, val |-> 0, aval |-> aval]
Literal(c, aval) == [lit |-> TRUE, id |-> 0, val |-> c, aval |-> aval]

JaxprEqn(primitive, invars, outvars, params) ==
  [primitive |-> primitive, invars |-> invars, outvars |-> outvars,
   params |-> params]

Jaxpr(name, constvars, invars, eqns, outvars) ==
  [name |-> name, constvars |-> constvars, invars |-> invars, eqns |-> eqns,
   outvars |-> outvars]

ClosedJaxpr(jaxpr, consts) == [jaxpr |-> jaxpr, consts |-> consts]

\* the primitives registered in the rule table
lowering_rules ==
  {"get", "swap", "load", "masked_swap", "multiple_of", "reduce_max",
   "reduce_sum", "broadcast_in_dim", "dot_general", "convert_element_type",
   "reshape", "iota", "transpose", "add", "max", "sub", "mul", "div", "rem",
   "abs", "neg", "rsqrt", "exp", "pow", "exp2", "logistic", "tanh", "log",
   "eq", "ne", "lt", "le", "gt", "ge", "and", "or", "select_n", "for",
   "scan", "cond", "pjit", "custom_jvp_call", "debug_callback",
   "program_id", "repeat", "slice", "xor", "shift_left",
   "shift_right_logical", "trace_start", "trace_stop"}

\* primitive.multiple_results of the primitives walked by the model
multiple_results(primitive) ==
  primitive \in {"for", "scan", "cond", "pjit", "custom_jvp_call"}

----------------------------------------------------------------------------
(* The walker: activations, environment, emitted instructions *)

\* an instruction placed at an insertion point: region is the path of
\* <<if id, "then" | "else">> regions enclosing it (<<>> is the function body)
Placed(instr, region) ==
  [op |-> instr.op, ins |-> instr.ins, imm |-> instr.imm,
   attr |-> instr.attr, dims |-> instr.dims, type |-> instr.type,
   region |-> region]

PlaceAll(instrs, region) ==
  [k \in 1..Len(instrs) |-> Placed(instrs[k], region)]

\* the hardware type of a lowered value
TypeOf(v, instrs, arg_types) ==
  CASE v[1] = "arg" -> arg_types[v[2]]
    [] v[1] = "ir" ->
         IF instrs[v[2]].op = "scf.if" /\ instrs[v[2]].attr = "results"
           THEN instrs[v[2]].type[v[3] + 1]
           ELSE instrs[v[2]].type
    [] OTHER -> NoType

Unbound == <<"unbound", 0, 0>>

\* the variables a jaxpr names
VarIds(jaxpr) ==
  {jaxpr.invars[k].id : k \in 1..Len(jaxpr.invars)}
    \cup UNION {{jaxpr.eqns[e].outvars[k].id :
                   k \in 1..Len(jaxpr.eqns[e].outvars)} :
                e \in 1..Len(jaxpr.eqns)}

\* an activation of jaxpr_subcomp: pc = 0 before the inputs are bound, then
\* the index of the next equation
WalkFrame(jaxpr, args, block_shapes, region) ==
  [kind |-> "jaxpr_subcomp", jaxpr |-> jaxpr, args |-> args,
   block_shapes |-> block_shapes, region |-> region, pc |-> 0,
   env |-> [id \in VarIds(jaxpr) |-> Unbound]]

\* an activation of a control-flow rule between two recursive walks:
\* ctx is its LoweringRuleContext, args the current carried values, i the
\* number of completed iterations, mark the length of the log at its entry
RuleFrame(kind, ctx, region, jaxpr, consts, args, start, has_loop_index, mark) ==
  [kind |-> kind, ctx |-> ctx, region |-> region, jaxpr |-> jaxpr,
   consts |-> consts, args |-> args, start |-> start,
   has_loop_index |-> has_loop_index, mark |-> mark, i |-> 0,
   phase |-> "", if_id |-> 0]

\* walker events
Event(ev, name, depth, k, vals) ==
  [ev |-> ev, name |-> name, depth |-> depth, k |-> k, vals |-> vals]

\* read_env / read_block_shape
read_env(f, atom) == IF atom.lit THEN HostVal(atom.val) ELSE f.env[atom.id]

read_block_shape(f, atom) ==
  IF atom.lit THEN NoneBlockShape
  ELSE LET at == {k \in 1..Len(f.jaxpr.invars) :
                    f.jaxpr.invars[k].id = atom.id}
       IN IF at = {} THEN NoneBlockShape
          ELSE f.block_shapes[CHOOSE k \in at : TRUE]

\* map(write_env, vars, vals): lengths must agree and every value must be
\* an ir.Value
write_env(env, outs, vals) ==
  IF Len(outs) # Len(vals) \/ \E k \in 1..Len(vals) : ~IsIrValue(vals[k])
    THEN [ok |-> FALSE, env |-> env]
    ELSE [ok |-> TRUE,
          env |-> [id \in DOMAIN env |->
                     IF \E k \in 1..Len(outs) : outs[k].id = id
                       THEN vals[CHOOSE k \in 1..Len(outs) :
                                   outs[k].id = id]
                       ELSE env[id]]]

\* the LoweringRuleContext built for the equation at f.pc
rule_context(f) ==
  LET eqn == f.jaxpr.eqns[f.pc]
  IN RuleContext([k \in 1..Len(eqn.invars) |-> eqn.invars[k].aval],
                 [k \in 1..Len(eqn.outvars) |-> eqn.outvars[k].aval],
                 [k \in 1..Len(eqn.invars) |->
                    read_block_shape(f, eqn.invars[k])])

\* the values jaxpr_subcomp returns: every literal output is materialised
\* as a constant
RECURSIVE materialize(_, _, _)
materialize(f, n, base) ==
  IF n = 0 THEN [instrs |-> <<>>, vals |-> <<>>]
  ELSE LET front == materialize(f, n - 1, base)
           atom == f.jaxpr.outvars[n]
       IN IF atom.lit
            THEN [instrs |->
                    Append(front.instrs,
                           ir_constant(atom.val, "int",
                             aval_to_ir_type(
                               ShapedArray(<<>>, "int32"), "")).instr),
                  vals |-> Append(front.vals,
                                  IrVal(base + Len(front.instrs) + 1))]
            ELSE [instrs |-> front.instrs,
                  vals |-> Append(front.vals, f.env[atom.id])]

----------------------------------------------------------------------------
(* The walker: jaxpr_subcomp step by step *)

Running == status = "running" /\ stack # <<>>
Top == stack[Len(stack)]
Parent == stack[Len(stack) - 1]

\* the walker stands at an equation / has run past the last equation
AtEquation ==
  /\ Running
  /\ Top.kind = "jaxpr_subcomp"
  /\ Top.pc \in 1..Len(Top.jaxpr.eqns)
Finished ==
  /\ Running
  /\ Top.kind = "jaxpr_subcomp"
  /\ Top.pc > Len(Top.jaxpr.eqns)

CurEqn == Top.jaxpr.eqns[Top.pc]
Invals == [k \in 1..Len(CurEqn.invars) |-> read_env(Top, CurEqn.invars[k])]
\* the equation whose rule the activation on top of the stack belongs to
RuleEqn == Parent.jaxpr.eqns[Parent.pc]

ReachedEqn == Event("eqn", CurEqn.primitive, Len(stack), Top.pc, Invals)
InvokedRule == Event("rule", CurEqn.primitive, Len(stack), Top.pc, Invals)

\* an exception that leaves only the activation that raised it
RaiseLeavingOne(kind, names, instrs, events) ==
  /\ status' = "failed"
  /\ error' = [kind |-> kind, names |-> names]
  /\ stack' = SubSeq(stack, 1, Len(stack) - 1)
  /\ emitted' = emitted \o instrs
  /\ log' = log \o events
  /\ UNCHANGED <<mvars, prog, outvals, call, ret>>

\* an exception leaves every activation; what was emitted stays emitted
Raise(kind, names, instrs, events) ==
  /\ status' = "failed"
  /\ error' = [kind |-> kind, names |-> names]
  /\ stack' = <<>>
  /\ emitted' = emitted \o instrs
  /\ log' = log \o events
  /\ UNCHANGED <<mvars, prog, outvals, call, ret>>

\* a failure message that does not name the primitive
unimplemented_primitive_unnamed(eqn) ==
  <<"Unimplemented primitive in Pallas TPU lowering">>

\* the message of the walker's own NotImplementedError
unimplemented_primitive(eqn) ==
  <<"Unimplemented primitive in Pallas TPU lowering", eqn.primitive>>

\* the answer of a rule is bound and the next equation is passed over
ReturnAnsSkipping(at, vals, instrs, single, events) ==
  LET w == stack[at]
      eqn == w.jaxpr.eqns[w.pc]
      outs == IF multiple_results(eqn.primitive) THEN eqn.outvars
              ELSE <<eqn.outvars[1]>>
      wr == write_env(w.env, outs, vals)
      ev == Append(events,
                   Event("ans", eqn.primitive, at, IF single THEN 1 ELSE 0,
                         vals))
  IN IF ~wr.ok
       THEN Raise("AssertionError", <<"write_env">>, instrs, ev)
       ELSE /\ stack' = [k \in 1..at |->
                           IF k = at
                             THEN [w EXCEPT !.env = wr.env, !.pc = w.pc + 2]
                             ELSE stack[k]]
            /\ emitted' = emitted \o instrs
            /\ log' = log \o ev
            /\ UNCHANGED <<mvars, prog, status, error, outvals, call, ret>>

\* the rule of the equation at stack[at] returned vals after emitting
\* instrs: the walker binds them to the equation's outputs (all of them for
\* a multiple_results primitive, the first otherwise) and moves on
ReturnAns(at, vals, instrs, single, events) ==
  LET w == stack[at]
      eqn == w.jaxpr.eqns[w.pc]
      outs == IF multiple_results(eqn.primitive) THEN eqn.outvars
              ELSE <<eqn.outvars[1]>>
      wr == write_env(w.env, outs, vals)
      ev == Append(events,
                   Event("ans", eqn.primitive, at, IF single THEN 1 ELSE 0,
                         vals))
  IN IF ~wr.ok
       THEN Raise("AssertionError", <<"write_env">>, instrs, ev)
       ELSE /\ stack' = [k \in 1..at |->
                           IF k = at
                             THEN [w EXCEPT !.env = wr.env, !.pc = w.pc + 1]
                             ELSE stack[k]]
            /\ emitted' = emitted \o instrs
            /\ log' = log \o ev
            /\ UNCHANGED <<mvars, prog, status, error, outvals, call, ret>>

\* jaxpr_subcomp that walks a program with constant variables, which stay
\* unbound
EnterSubcompWithConstvars ==
  /\ Running
  /\ Top.kind = "jaxpr_subcomp"
  /\ Top.pc = 0
  /\ LET f == Top
         ev == <<Event("subcomp", f.jaxpr.name, Len(stack), 0, f.args)>>
         bound == write_env(f.env, f.jaxpr.invars, f.args)
     IN IF Len(f.jaxpr.invars) # Len(f.block_shapes)
          THEN Raise("AssertionError", <<"block_shapes">>, <<>>, ev)
        ELSE IF ~bound.ok
          THEN Raise("AssertionError", <<"write_env">>, <<>>, ev)
        ELSE /\ stack' = [stack EXCEPT ![Len(stack)] =
                            [f EXCEPT !.pc = 1, !.env = bound.env]]
             /\ log' = log \o ev
             /\ UNCHANGED <<mvars, prog, emitted, status, error, outvals, call,
                            ret>>

\* jaxpr_subcomp up to its equation loop: no constvars, one block shape per
\* input, every argument an ir.Value bound to its input
EnterSubcomp ==
  /\ Running
  /\ Top.kind = "jaxpr_subcomp"
  /\ Top.pc = 0
  /\ LET f == Top
         ev == <<Event("subcomp", f.jaxpr.name, Len(stack), 0, f.args)>>
         bound == write_env(f.env, f.jaxpr.invars, f.args)
     IN IF f.jaxpr.constvars # <<>>
          THEN Raise("AssertionError", <<"constvars">>, <<>>, ev)
        ELSE IF Len(f.jaxpr.invars) # Len(f.block_shapes)
          THEN Raise("AssertionError", <<"block_shapes">>, <<>>, ev)
        ELSE IF ~bound.ok
          THEN Raise("AssertionError", <<"write_env">>, <<>>, ev)
        ELSE /\ stack' = [stack EXCEPT ![Len(stack)] =
                            [f EXCEPT !.pc = 1, !.env = bound.env]]
             /\ log' = log \o ev
             /\ UNCHANGED <<mvars, prog, emitted, status, error, outvals, call,
                            ret>>

\* an equation whose primitive has no rule
UnimplementedPrimitive ==
  /\ AtEquation
  /\ CurEqn.primitive \notin lowering_rules
  /\ Raise("NotImplementedError", unimplemented_primitive(CurEqn), <<>>,
           <<ReachedEqn>>)

\* an equation lowered by a rule that emits instructions and returns
LowerEqn ==
  /\ AtEquation
  /\ CurEqn.primitive = "add"
  /\ LET ans == _add_lowering_rule(
                  rule_context(Top), Invals[1], Invals[2],
                  TypeOf(Invals[1], emitted, prog.arg_types),
                  TypeOf(Invals[2], emitted, prog.arg_types), Len(emitted))
     IN IF ~ans.ok
          THEN Raise(ans.err, ans.names, PlaceAll(ans.instrs, Top.region),
                     <<ReachedEqn, InvokedRule>>)
          ELSE ReturnAns(Len(stack), ans.out,
                         PlaceAll(ans.instrs, Top.region), TRUE,
                         <<ReachedEqn, InvokedRule>>)

\* the outermost jaxpr_subcomp returns its output values
ReturnToTop ==
  /\ Finished
  /\ Len(stack) = 1
  /\ LET m == materialize(Top, Len(Top.jaxpr.outvars), Len(emitted))
     IN /\ outvals' = [returned |-> TRUE, vals |-> m.vals]
        /\ emitted' = emitted \o PlaceAll(m.instrs, Top.region)
        /\ log' = Append(log, Event("out", Top.jaxpr.name, 1, 0, m.vals))
  /\ stack' = <<>>
  /\ status' = "done"
  /\ UNCHANGED <<mvars, prog, error, call, ret>>

----------------------------------------------------------------------------
(* Control flow: for, scan, cond, pjit *)

\* a loop that hands every iteration the arguments of the first
for_rebind_keeps_args(args, non_ref_args, should_discharge) == args

\* [next(non_ref_args_iter) if s else a for a, s in zip(args,
\* should_discharge)]
for_rebind(args, non_ref_args, should_discharge) ==
  [k \in 1..Len(args) |->
     IF should_discharge[k]
       THEN non_ref_args[CountTrue(should_discharge, k)]
       ELSE args[k]]

\* _for_lowering_rule up to its loop; the body is held in the form
\* discharge_state gives it: inputs (i, *args), one output per argument that
\* is not a reference
ForRule ==
  /\ AtEquation
  /\ CurEqn.primitive = "for"
  /\ stack' = Append(stack,
                     RuleFrame("for", rule_context(Top), Top.region,
                               CurEqn.params.jaxpr, <<>>, Invals, 0, TRUE,
                               Len(log) + 2))
  /\ log' = log \o <<ReachedEqn, InvokedRule>>
  /\ UNCHANGED <<mvars, prog, emitted, status, error, outvals, call, ret>>

\* a pass of the loop that hands the body the block shapes of the caller
ForIterationCallerBlockShapes ==
  /\ Running
  /\ Top.kind = "for"
  /\ Top.i < RuleEqn.params.nsteps
  /\ LET r == Top
         i == IF RuleEqn.params.reverse
                THEN RuleEqn.params.nsteps - r.i - 1
                ELSE r.i
     IN /\ emitted' = Append(emitted,
                             Placed(ir_constant(i, "int",
                                      dtype_to_ir_type("int32")).instr,
                                    r.region))
        /\ stack' = Append(stack,
                           WalkFrame(r.jaxpr,
                                     <<IrVal(Len(emitted) + 1)>> \o r.args,
                                     r.ctx.block_shapes,
                                     r.region))
  /\ UNCHANGED <<mvars, prog, status, error, outvals, log, call, ret>>

\* one pass of the loop of _for_lowering_rule up to the recursive walk
ForIteration ==
  /\ Running
  /\ Top.kind = "for"
  /\ Top.i < RuleEqn.params.nsteps
  /\ LET r == Top
         i == IF RuleEqn.params.reverse
                THEN RuleEqn.params.nsteps - r.i - 1
                ELSE r.i
     IN /\ emitted' = Append(emitted,
                             Placed(ir_constant(i, "int",
                                      dtype_to_ir_type("int32")).instr,
                                    r.region))
        /\ stack' = Append(stack,
                           WalkFrame(r.jaxpr,
                                     <<IrVal(Len(emitted) + 1)>> \o r.args,
                                     <<<<>>>> \o r.ctx.block_shapes,
                                     r.region))
  /\ UNCHANGED <<mvars, prog, status, error, outvals, log, call, ret>>

\* the walk of a for body returns: the values it returns replace the
\* arguments that are not references
ReturnToFor ==
  /\ Finished
  /\ Len(stack) >= 2
  /\ Parent.kind = "for"
  /\ LET f == Top
         r == Parent
         m == materialize(f, Len(f.jaxpr.outvars), Len(emitted))
         ev == <<Event("out", f.jaxpr.name, Len(stack), 0, m.vals)>>
         should_discharge == [k \in 1..Len(r.ctx.avals_in) |->
                                ~r.ctx.avals_in[k].ref]
     IN IF CountTrue(should_discharge, Len(should_discharge)) > Len(m.vals)
          THEN Raise("StopIteration", <<>>, PlaceAll(m.instrs, f.region), ev)
          ELSE /\ stack' = [k \in 1..(Len(stack) - 1) |->
                              IF k = Len(stack) - 1
                                THEN [r EXCEPT
                                        !.args = for_rebind(r.args, m.vals,
                                                   should_discharge),
                                        !.i = r.i + 1]
                                ELSE stack[k]]
               /\ emitted' = emitted \o PlaceAll(m.instrs, f.region)
               /\ log' = log \o ev
               /\ UNCHANGED <<mvars, prog, status, error, outvals, call, ret>>

\* the loop of _for_lowering_rule is over: the rule returns args
ForReturn ==
  /\ Running
  /\ Top.kind = "for"
  /\ ~(Top.i < RuleEqn.params.nsteps)
  /\ ReturnAns(Len(stack) - 1, Top.args, <<>>, FALSE, <<>>)

\* pallas_utils.pattern_match_scan_to_fori_loop: with carried values, the
\* first carried input is the loop index and the first output the index
\* plus one; the incrementing equation and that output are removed
pattern_match_scan_to_fori_loop(jaxpr, num_consts, num_carry) ==
  IF num_carry > 0
    THEN LET in_index_var == jaxpr.invars[num_consts + 1]
             out_index_var == jaxpr.outvars[1]
             incr == {e \in 1..Len(jaxpr.eqns) :
                        /\ jaxpr.eqns[e].primitive = "add"
                        /\ ~jaxpr.eqns[e].invars[1].lit
                        /\ jaxpr.eqns[e].invars[1].id = in_index_var.id
                        /\ jaxpr.eqns[e].invars[2].lit
                        /\ jaxpr.eqns[e].invars[2].val = 1
                        /\ ~out_index_var.lit
                        /\ jaxpr.eqns[e].outvars[1].id = out_index_var.id}
             eqn_index == CHOOSE e \in incr : \A d \in incr : e <= d
         IN IF \/ in_index_var.aval.shape # <<>>
               \/ in_index_var.aval.dtype # "int32"
               \/ out_index_var.aval.shape # <<>>
               \/ out_index_var.aval.dtype # "int32"
               \/ incr = {}
              THEN [ok |-> FALSE, jaxpr |-> jaxpr, has_loop_index |-> TRUE]
              ELSE [ok |-> TRUE,
                    jaxpr |-> [jaxpr EXCEPT
                                 !.eqns = SubSeq(jaxpr.eqns, 1,
                                                 eqn_index - 1)
                                            \o SubSeq(jaxpr.eqns,
                                                      eqn_index + 1,
                                                      Len(jaxpr.eqns)),
                                 !.outvars = Tail(jaxpr.outvars)],
                    has_loop_index |-> TRUE]
    ELSE [ok |-> TRUE, jaxpr |-> jaxpr, has_loop_index |-> FALSE]

\* _scan_lowering_rule up to the call of _lower_jaxpr_to_unrolled_for_loop;
\* the loop index start is a host integer, as a counted loop with static
\* bounds supplies it
ScanRule ==
  /\ AtEquation
  /\ CurEqn.primitive = "scan"
  /\ LET p == CurEqn.params
         num_extensive == Len(Invals) - p.num_consts - p.num_carry
         pm == pattern_match_scan_to_fori_loop(p.jaxpr.jaxpr, p.num_consts,
                                               p.num_carry)
         consts == SubSeq(Invals, 1, p.num_consts)
         args == SubSeq(Invals, p.num_consts + 1, Len(Invals))
     IN IF num_extensive # 0 \/ p.reverse \/ p.jaxpr.consts # <<>> \/ ~pm.ok
          THEN Raise("NotImplementedError", <<>>, <<>>,
                     <<ReachedEqn, InvokedRule>>)
          ELSE /\ pm.has_loop_index => args[1][1] = "host"
               /\ stack' =
                    Append(stack,
                           RuleFrame("scan", rule_context(Top), Top.region,
                                     pm.jaxpr, consts,
                                     IF pm.has_loop_index THEN Tail(args)
                                                          ELSE args,
                                     IF pm.has_loop_index THEN args[1]
                                                          ELSE HostVal(0),
                                     pm.has_loop_index, Len(log) + 2))
               /\ log' = log \o <<ReachedEqn, InvokedRule>>
               /\ UNCHANGED <<mvars, prog, emitted, status, error, outvals, call,
                              ret>>

\* one pass of the loop of _lower_jaxpr_to_unrolled_for_loop up to the
\* recursive walk
ScanIteration ==
  /\ Running
  /\ Top.kind = "scan"
  /\ Top.i < RuleEqn.params.length
  /\ LET r == Top
         nc == Len(r.consts)
         bs == r.ctx.block_shapes
     IN IF r.has_loop_index
          THEN /\ emitted' =
                    Append(emitted,
                           Placed(ir_constant(r.start[2] + r.i, "int",
                                    dtype_to_ir_type("int32")).instr,
                                  r.region))
               /\ stack' =
                    Append(stack,
                           WalkFrame(r.jaxpr,
                                     r.consts \o <<IrVal(Len(emitted) + 1)>>
                                       \o r.args,
                                     bs, r.region))
          ELSE /\ emitted' = emitted
               /\ stack' =
                    Append(stack,
                           WalkFrame(r.jaxpr, r.consts \o r.args,
                                     SubSeq(bs, 1, nc)
                                       \o SubSeq(bs, nc + 2, Len(bs)),
                                     r.region))
  /\ UNCHANGED <<mvars, prog, status, error, outvals, log, call, ret>>

\* the walk of a scan body returns: its outputs are the next carried values
ReturnToScan ==
  /\ Finished
  /\ Len(stack) >= 2
  /\ Parent.kind = "scan"
  /\ LET f == Top
         m == materialize(f, Len(f.jaxpr.outvars), Len(emitted))
     IN /\ stack' = [k \in 1..(Len(stack) - 1) |->
                       IF k = Len(stack) - 1
                         THEN [Parent EXCEPT !.args = m.vals,
                                             !.i = Parent.i + 1]
                         ELSE stack[k]]
        /\ emitted' = emitted \o PlaceAll(m.instrs, f.region)
        /\ log' = Append(log, Event("out", f.jaxpr.name, Len(stack), 0,
                                    m.vals))
  /\ UNCHANGED <<mvars, prog, status, error, outvals, call, ret>>

\* the unrolled loop is over: with a loop index the rule returns the
\* constant length followed by the carried values
ScanReturn ==
  /\ Running
  /\ Top.kind = "scan"
  /\ ~(Top.i < RuleEqn.params.length)
  /\ IF Top.has_loop_index
       THEN ReturnAns(Len(stack) - 1,
                      <<IrVal(Len(emitted) + 1)>> \o Top.args,
                      <<Placed(ir_constant(RuleEqn.params.length, "int",
                                 dtype_to_ir_type("int32")).instr,
                               Top.region)>>,
                      FALSE, <<>>)
       ELSE ReturnAns(Len(stack) - 1, Top.args, <<>>, FALSE, <<>>)

\* the two branches lowered into each other's region
region_branch_swapped(region) == IF region = "then" THEN 0 ELSE 1

\* the branch lowered into a region of the if: branches[1] into the then
\* block, branches[0] into the else block
region_branch(region) == IF region = "then" THEN 1 ELSE 0

NoJaxpr == Jaxpr("", <<>>, <<>>, <<>>, <<>>)

\* _cond_lowering_rule up to the first region: at most two branches, the
\* predicate truncated to one bit, the if instruction created
CondRule ==
  /\ AtEquation
  /\ CurEqn.primitive = "cond"
  /\ LET ctx == rule_context(Top)
         pred == Invals[1]
         out_types == [k \in 1..Len(ctx.avals_out) |->
                         aval_to_ir_type(ctx.avals_out[k], "")]
         singleton == Len(out_types) = 1
         trunc == Instr("arith.trunci", <<pred>>, 0, "", <<>>,
                        aval_to_ir_type(ShapedArray(<<>>, "bool"), ""))
         if_op == Instr("scf.if", <<IrVal(Len(emitted) + 1)>>, 0,
                        IF singleton THEN "result" ELSE "results", <<>>,
                        IF singleton THEN out_types[1] ELSE out_types)
     IN IF Len(CurEqn.params.branches) > 2
          THEN Raise("NotImplementedError", <<>>, <<>>,
                     <<ReachedEqn, InvokedRule>>)
          ELSE /\ emitted' = emitted \o PlaceAll(<<trunc, if_op>>, Top.region)
               /\ stack' =
                    Append(stack,
                           [RuleFrame("cond", ctx, Top.region, NoJaxpr,
                                      <<>>, Tail(Invals), HostVal(0), FALSE,
                                      Len(log) + 2)
                              EXCEPT !.phase = "then",
                                     !.if_id = Len(emitted) + 2])
               /\ log' = log \o <<ReachedEqn, InvokedRule>>
               /\ UNCHANGED <<mvars, prog, status, error, outvals, call, ret>>

\* the walker is sent into the then block, afterwards into the else block
CondBranch ==
  /\ Running
  /\ Top.kind = "cond"
  /\ Top.phase \in {"then", "else"}
  /\ LET r == Top
         branches == RuleEqn.params.branches
         b == region_branch(r.phase) + 1
     IN IF b > Len(branches)
          THEN Raise("IndexError", <<>>, <<>>, <<>>)
          ELSE /\ stack' =
                    Append(stack,
                           WalkFrame(branches[b].jaxpr, r.args,
                                     Tail(r.ctx.block_shapes),
                                     Append(r.region, <<r.if_id, r.phase>>)))
               /\ UNCHANGED <<mvars, prog, emitted, status, error, outvals, log,
                              call, ret>>

\* the walk of a branch returns: its values are yielded from the region
ReturnToCond ==
  /\ Finished
  /\ Len(stack) >= 2
  /\ Parent.kind = "cond"
  /\ LET f == Top
         m == materialize(f, Len(f.jaxpr.outvars), Len(emitted))
         yield == Instr("scf.yield", m.vals, 0, "", <<>>, NoType)
     IN /\ stack' = [k \in 1..(Len(stack) - 1) |->
                       IF k = Len(stack) - 1
                         THEN [Parent EXCEPT
                                 !.phase = IF Parent.phase = "then"
                                             THEN "else" ELSE "done"]
                         ELSE stack[k]]
        /\ emitted' = emitted \o PlaceAll(Append(m.instrs, yield), f.region)
        /\ log' = Append(log, Event("out", f.jaxpr.name, Len(stack), 0,
                                    m.vals))
  /\ UNCHANGED <<mvars, prog, status, error, outvals, call, ret>>

\* both regions are filled: the rule returns if_op.result for one output
\* and if_op.results otherwise.  The walker hands the answer of a
\* multiple_results primitive to map(), which needs an iterable; whether a
\* single result value can be iterated is decided by the MLIR bindings, so
\* both outcomes are kept
CondReturn ==
  /\ Running
  /\ Top.kind = "cond"
  /\ Top.phase = "done"
  /\ LET singleton == Len(Top.ctx.avals_out) = 1
         results == [k \in 1..Len(Top.ctx.avals_out) |->
                       <<"ir", Top.if_id, k - 1>>]
     IN \/ ReturnAns(Len(stack) - 1, results, <<>>, singleton, <<>>)
        \/ /\ singleton
           /\ Raise("TypeError", <<"not iterable">>, <<>>,
                    <<Event("ans", "cond", Len(stack) - 1, 1, results)>>)

\* host arguments of a pjit become constants of their aval's type
RECURSIVE pjit_args(_, _, _)
pjit_args(args, avals_in, base) ==
  IF args = <<>> THEN [instrs |-> <<>>, vals |-> <<>>]
  ELSE LET n == Len(args)
           front == pjit_args(SubSeq(args, 1, n - 1), avals_in, base)
       IN IF IsIrValue(args[n])
            THEN [instrs |-> front.instrs, vals |-> Append(front.vals,
                                                           args[n])]
            ELSE [instrs |->
                    Append(front.instrs,
                           ir_constant(args[n][2], "int",
                             aval_to_ir_type(avals_in[n], "")).instr),
                  vals |-> Append(front.vals,
                                  IrVal(base + Len(front.instrs) + 1))]

\* _pjit_lowering_rule up to the recursive walk
PjitRule ==
  /\ AtEquation
  /\ CurEqn.primitive = "pjit"
  /\ LET ctx == rule_context(Top)
         a == pjit_args(Invals, ctx.avals_in, Len(emitted))
     IN /\ emitted' = emitted \o PlaceAll(a.instrs, Top.region)
        /\ stack' = Append(stack,
                           WalkFrame(CurEqn.params.jaxpr.jaxpr, a.vals,
                                     ctx.block_shapes, Top.region))
  /\ log' = log \o <<ReachedEqn, InvokedRule>>
  /\ UNCHANGED <<mvars, prog, status, error, outvals, call, ret>>

\* the walk of the callee returns: the pjit rule returns its values
PjitReturn ==
  /\ Finished
  /\ Len(stack) >= 2
  /\ Parent.kind = "jaxpr_subcomp"
  /\ RuleEqn.primitive \in {"pjit", "custom_jvp_call"}
  /\ LET m == materialize(Top, Len(Top.jaxpr.outvars), Len(emitted))
     IN ReturnAns(Len(stack) - 1, m.vals, PlaceAll(m.instrs, Top.region),
                  FALSE,
                  <<Event("out", Top.jaxpr.name, Len(stack), 0, m.vals)>>)

----------------------------------------------------------------------------
(* program_id *)

\* program_id that tests only the upper bound of the axis, so that a
\* negative axis counts from the end of the tuple
_program_id_no_lower_bound(grid_indices, axis) ==
  LET length == Len(grid_indices.indices)
  IN IF grid_indices.none
       THEN Raised("ValueError", <<"program id", axis>>, <<>>)
     ELSE IF ~(axis < length /\ axis >= 0 - length)
       THEN Raised("ValueError", <<"program id", axis>>, <<>>)
     ELSE Returned(<<>>, <<grid_indices.indices[
                             IF axis >= 0 THEN axis + 1
                             ELSE length + axis + 1]>>)

\* grid_indices is ctx.lowering_context.grid_indices; both messages carry
\* the axis
_program_id_lowering_rule(grid_indices, axis) ==
  LET length == Len(grid_indices.indices)
  IN IF grid_indices.none
       THEN Raised("ValueError", <<"program id", axis>>, <<>>)
     ELSE IF ~(0 <= axis /\ axis < length)
       THEN Raised("ValueError", <<"program id", axis>>, <<>>)
     ELSE Returned(<<>>, <<grid_indices.indices[axis + 1]>>)

\* every nested walk runs under the lowering context of the function, so
\* the grid indices are those of the function being lowered
ProgramIdRule ==
  /\ AtEquation
  /\ CurEqn.primitive = "program_id"
  /\ LET ans == _program_id_lowering_rule(prog.grid_indices,
                                          CurEqn.params.axis)
     IN IF ~ans.ok
          THEN Raise(ans.err, ans.names, <<>>, <<ReachedEqn, InvokedRule>>)
          ELSE ReturnAns(Len(stack), ans.out, <<>>, TRUE,
                         <<ReachedEqn, InvokedRule>>)

----------------------------------------------------------------------------
(* custom_jvp_call, lower_fun and the rules the traced exp2 needs *)

\* _custom_jvp_call_lowering_rule: the callee is walked in place with the
\* arguments as they are; its return is that of an inlined call
CustomJvpRule ==
  /\ AtEquation
  /\ CurEqn.primitive = "custom_jvp_call"
  /\ LET ctx == rule_context(Top)
         p == CurEqn.params
     IN IF p.symbolic_zeros \/ p.num_consts # 0 \/ p.call_jaxpr.consts # <<>>
          THEN Raise("NotImplementedError", <<>>, <<>>,
                     <<ReachedEqn, InvokedRule>>)
          ELSE /\ stack' = Append(stack,
                                  WalkFrame(p.call_jaxpr.jaxpr, Invals,
                                            ctx.block_shapes, Top.region))
               /\ log' = log \o <<ReachedEqn, InvokedRule>>
               /\ UNCHANGED <<mvars, prog, emitted, status, error, outvals,
                              call, ret>>

\* pe.trace_to_jaxpr_dynamic belongs to the tracer: what it returns for the
\* function of a rule and the avals of its inputs is given with the equation
trace_to_jaxpr_dynamic(eqn) == eqn.params.trace

\* pe.convert_constvars_jaxpr: the constvars become leading inputs
convert_constvars_jaxpr(jaxpr) ==
  [jaxpr EXCEPT !.constvars = <<>>,
                !.invars = jaxpr.constvars \o jaxpr.invars]

\* exp2 lowered to the hardware instruction
Exp2RuleHardware ==
  /\ AtEquation
  /\ CurEqn.primitive = "exp2"
  /\ ReturnAns(Len(stack), <<IrVal(Len(emitted) + 1)>>,
               PlaceAll(<<Instr("math.exp2", <<Invals[1]>>, 0, "", <<>>,
                                TypeOf(Invals[1], emitted,
                                       prog.arg_types))>>, Top.region),
               TRUE, <<ReachedEqn, InvokedRule>>)

\* _exp2_lowering_rule is lower_fun(...)(ctx, x): f_lowered up to the walk
\* of the traced function
Exp2Rule ==
  /\ AtEquation
  /\ CurEqn.primitive = "exp2"
  /\ LET ctx == rule_context(Top)
         trace == trace_to_jaxpr_dynamic(CurEqn)
     IN IF trace.consts # <<>>
          THEN Raise("NotImplementedError", <<>>, <<>>,
                     <<ReachedEqn, InvokedRule>>)
          ELSE /\ stack' = Append(stack,
                                  WalkFrame(
                                    convert_constvars_jaxpr(trace.jaxpr),
                                    Invals, ctx.block_shapes, Top.region))
               /\ log' = log \o <<ReachedEqn, InvokedRule>>
               /\ UNCHANGED <<mvars, prog, emitted, status, error, outvals,
                              call, ret>>

\* the walk of the traced function returns: f_lowered returns out[0]
LowerFunReturn ==
  /\ Finished
  /\ Len(stack) >= 2
  /\ Parent.kind = "jaxpr_subcomp"
  /\ RuleEqn.primitive = "exp2"
  /\ LET m == materialize(Top, Len(Top.jaxpr.outvars), Len(emitted))
         ev == <<Event("out", Top.jaxpr.name, Len(stack), 0, m.vals)>>
     IN IF m.vals = <<>>
          THEN Raise("IndexError", <<>>, PlaceAll(m.instrs, Top.region), ev)
          ELSE ReturnAns(Len(stack) - 1, <<m.vals[1]>>,
                         PlaceAll(m.instrs, Top.region), TRUE, ev)

\* math.ExpOp takes an ir.Value
_exp_lowering_rule(ctx, x, xt, base) ==
  IF ~IsIrValue(x) THEN Raised("TypeError", <<"ExpOp">>, <<>>)
  ELSE Returned(<<Instr("math.exp", <<x>>, 0, "", <<>>, xt)>>,
                <<IrVal(base + 1)>>)

ExpRule ==
  /\ AtEquation
  /\ CurEqn.primitive = "exp"
  /\ LET ans == _exp_lowering_rule(
                  rule_context(Top), Invals[1],
                  TypeOf(Invals[1], emitted, prog.arg_types), Len(emitted))
     IN IF ~ans.ok
          THEN Raise(ans.err, ans.names, PlaceAll(ans.instrs, Top.region),
                     <<ReachedEqn, InvokedRule>>)
          ELSE ReturnAns(Len(stack), ans.out,
                         PlaceAll(ans.instrs, Top.region), TRUE,
                         <<ReachedEqn, InvokedRule>>)

MulRule ==
  /\ AtEquation
  /\ CurEqn.primitive = "mul"
  /\ LET ans == _mul_lowering_rule(
                  rule_context(Top), Invals[1], Invals[2],
                  TypeOf(Invals[1], emitted, prog.arg_types),
                  TypeOf(Invals[2], emitted, prog.arg_types), Len(emitted))
     IN IF ~ans.ok
          THEN Raise(ans.err, ans.names, PlaceAll(ans.instrs, Top.region),
                     <<ReachedEqn, InvokedRule>>)
          ELSE ReturnAns(Len(stack), ans.out,
                         PlaceAll(ans.instrs, Top.region), TRUE,
                         <<ReachedEqn, InvokedRule>>)

----------------------------------------------------------------------------
(* Walker-level specification: one run of jaxpr_subcomp on a program *)

i32 == ShapedArray(<<>>, "int32")
V(n) == Var(n, i32)
Lit(c) == Literal(c, i32)
NoParams == [none |-> TRUE]
Add(x, y, out) == JaxprEqn("add", <<x, y>>, <<out>>, NoParams)

\* for bodies in discharged form, inputs (i, acc): acc + 1 and acc + i
IncBody ==
  Jaxpr("inc", <<>>, <<V(1), V(2)>>, <<Add(V(2), Lit(1), V(3))>>, <<V(3)>>)
AddIndexBody ==
  Jaxpr("add_index", <<>>, <<V(1), V(2)>>, <<Add(V(2), V(1), V(3))>>,
        <<V(3)>>)
\* inputs (i, a, b): returns (b, a + i)
TwoCarryBody ==
  Jaxpr("two_carry", <<>>, <<V(1), V(2), V(3)>>,
        <<Add(V(2), V(1), V(4))>>, <<V(3), V(4)>>)
\* inputs (i, ref, acc): the reference is not an output
RefBody ==
  Jaxpr("ref_inc", <<>>,
        <<V(1), Var(2, AbstractRef(<<8>>, "float32")), V(3)>>,
        <<Add(V(3), Lit(1), V(4))>>, <<V(4)>>)

ForEqn(body, nsteps, reverse, ins, outs) ==
  JaxprEqn("for", ins, outs,
           [jaxpr |-> body, nsteps |-> nsteps, reverse |-> reverse])

\* scan bodies of counted loops, inputs (i, acc): (i + 1, acc + 1) and
\* (i + 1, acc + i); with a constant, inputs (c, i, acc): (i + 1, acc + c)
ForiIncBody ==
  Jaxpr("fori_inc", <<>>, <<V(1), V(2)>>,
        <<Add(V(1), Lit(1), V(3)), Add(V(2), Lit(1), V(4))>>,
        <<V(3), V(4)>>)
ForiAddIndexBody ==
  Jaxpr("fori_add_index", <<>>, <<V(1), V(2)>>,
        <<Add(V(2), V(1), V(4)), Add(V(1), Lit(1), V(3))>>,
        <<V(3), V(4)>>)
ForiConstBody ==
  Jaxpr("fori_const", <<>>, <<V(1), V(2), V(3)>>,
        <<Add(V(2), Lit(1), V(4)), Add(V(3), V(1), V(5))>>,
        <<V(4), V(5)>>)
\* the index is returned unchanged: not the shape of a counted loop
NoIncrementBody ==
  Jaxpr("no_increment", <<>>, <<V(1), V(2)>>,
        <<Add(V(2), Lit(1), V(3))>>, <<V(1), V(3)>>)
\* no carried value: input (c), no output
NoCarryBody ==
  Jaxpr("no_carry", <<>>, <<V(1)>>, <<Add(V(1), V(1), V(2))>>, <<>>)

ScanEqn(body, consts, length, reverse, num_consts, num_carry, ins, outs) ==
  JaxprEqn("scan", ins, outs,
           [jaxpr |-> ClosedJaxpr(body, consts), length |-> length,
            reverse |-> reverse, num_consts |-> num_consts,
            num_carry |-> num_carry])

\* cond branches, inputs (a, b)
SumBranch ==
  Jaxpr("sum", <<>>, <<V(1), V(2)>>, <<Add(V(1), V(2), V(3))>>, <<V(3)>>)
IncBranch ==
  Jaxpr("inc_a", <<>>, <<V(1), V(2)>>, <<Add(V(1), Lit(1), V(3))>>,
        <<V(3)>>)
SevenBranch == Jaxpr("seven", <<>>, <<V(1), V(2)>>, <<>>, <<Lit(7)>>)
SumPairBranch ==
  Jaxpr("sum_pair", <<>>, <<V(1), V(2)>>, <<Add(V(1), V(2), V(3))>>,
        <<V(3), V(1)>>)
SwapPairBranch ==
  Jaxpr("swap_pair", <<>>, <<V(1), V(2)>>, <<Add(V(1), Lit(1), V(3))>>,
        <<V(2), V(3)>>)
\* a branch using a primitive without a rule
SinBranch ==
  Jaxpr("sin_branch", <<>>, <<V(1), V(2)>>,
        <<JaxprEqn("sin", <<V(1)>>, <<V(3)>>, NoParams)>>, <<V(3)>>)

CondEqn(branches, ins, outs) ==
  JaxprEqn("cond", ins, outs,
           [branches |-> [k \in 1..Len(branches) |->
                            ClosedJaxpr(branches[k], <<>>)]])

PjitEqn(callee, ins, outs) ==
  JaxprEqn("pjit", ins, outs, [jaxpr |-> ClosedJaxpr(callee, <<>>)])

\* a kernel program of the library under the name the properties know it by
Program(name, jaxpr) == [name |-> name, jaxpr |-> jaxpr]

Main(invars, eqns, outvars) == Jaxpr("main", <<>>, invars, eqns, outvars)

Steps == 0..MaxSteps

\* straight-line programs: three equations, one of them possibly a
\* primitive without a rule; a literal output
StraightPrograms ==
  {Program("straight",
     Main(<<V(1), V(2)>>,
          [e \in 1..3 |->
             IF e = at
               THEN JaxprEqn(prim, <<V(e)>>, <<V(e + 2)>>, NoParams)
               ELSE Add(V(e), V(e + 1), V(e + 2))],
          <<V(5), Lit(5)>>)) :
     at \in 0..3, prim \in {"sin", "erf_inv"}}

ForPrograms ==
  {Program("for",
     Main(<<V(1)>>, <<ForEqn(body, n, rev, <<V(1)>>, <<V(2)>>)>>,
          <<V(2)>>)) :
     body \in {IncBody, AddIndexBody}, n \in Steps, rev \in BOOLEAN}
  \cup
  {Program("for2",
     Main(<<V(1), V(2)>>,
          <<ForEqn(TwoCarryBody, n, rev, <<V(1), V(2)>>, <<V(3), V(4)>>)>>,
          <<V(3), V(4)>>)) : n \in Steps, rev \in BOOLEAN}
  \cup
  {Program("for_ref",
     Main(<<Var(1, AbstractRef(<<8>>, "float32")), V(2)>>,
          <<ForEqn(RefBody, n, FALSE,
                   <<Var(1, AbstractRef(<<8>>, "float32")), V(2)>>,
                   <<Var(3, AbstractRef(<<8>>, "float32")), V(4)>>)>>,
          <<V(4)>>)) : n \in Steps}
  \cup
  \* a literal operand: a host value reaches the body's inputs
  {Program("for_literal",
     Main(<<V(1)>>, <<ForEqn(IncBody, n, FALSE, <<Lit(0)>>, <<V(2)>>)>>,
          <<V(2)>>)) : n \in Steps}

ScanPrograms ==
  {Program("scan",
     Main(<<V(1)>>,
          <<ScanEqn(body, <<>>, n, FALSE, 0, 2, <<Lit(start), V(1)>>,
                    <<V(2), V(3)>>)>>,
          <<V(2), V(3)>>)) :
     body \in {ForiIncBody, ForiAddIndexBody}, n \in Steps,
     start \in {0, 1}}
  \cup
  {Program("scan_const",
     Main(<<V(1), V(2)>>,
          <<ScanEqn(ForiConstBody, <<>>, n, FALSE, 1, 2,
                    <<V(1), Lit(0), V(2)>>, <<V(3), V(4)>>)>>,
          <<V(3), V(4)>>)) : n \in Steps}
  \cup
  {Program("scan_no_carry",
     Main(<<V(1)>>,
          <<ScanEqn(NoCarryBody, <<>>, n, FALSE, 1, 0, <<V(1)>>, <<>>)>>,
          <<V(1)>>)) : n \in Steps}
  \cup
  \* the forms the rule rejects: reverse, an extensive operand, embedded
  \* constants, a body that is not a counted loop
  {Program("scan_rejected",
     Main(<<V(1), V(2)>>,
          <<ScanEqn(body, consts, 2, rev, 0, 2,
                    <<Lit(0), V(1)>> \o xs, <<V(3), V(4)>>)>>,
          <<V(3), V(4)>>)) :
     <<body, consts, rev, xs>> \in
       {<<ForiIncBody, <<>>, TRUE, <<>>>>,
        <<ForiIncBody, <<>>, FALSE, <<V(2)>>>>,
        <<ForiIncBody, <<3>>, FALSE, <<>>>>,
        <<NoIncrementBody, <<>>, FALSE, <<>>>>}}

CondPrograms ==
  {Program("cond",
     Main(<<V(1), V(2), V(3)>>,
          <<CondEqn(bs, <<V(1), V(2), V(3)>>, <<V(4)>>)>>, <<V(4)>>)) :
     bs \in {<<SumBranch, IncBranch>>, <<IncBranch, SumBranch>>,
             <<SumBranch, SevenBranch>>, <<SinBranch, IncBranch>>,
             <<SumBranch, SinBranch>>,
             <<SumBranch, IncBranch, SevenBranch>>}}
  \cup
  {Program("cond_one_branch",
     Main(<<V(1), V(2), V(3)>>,
          <<CondEqn(<<SumBranch>>, <<V(1), V(2), V(3)>>, <<V(4)>>)>>,
          <<V(4)>>))}
  \cup
  {Program("cond2",
     Main(<<V(1), V(2), V(3)>>,
          <<CondEqn(bs, <<V(1), V(2), V(3)>>, <<V(4), V(5)>>),
            Add(V(4), V(5), V(6))>>, <<V(6), V(4)>>)) :
     bs \in {<<SumPairBranch, SwapPairBranch>>,
             <<SwapPairBranch, SumPairBranch>>}}

\* control flow inside control flow, and inlined calls
NestedPrograms ==
  {Program("pjit",
     Main(<<V(1)>>, <<PjitEqn(callee, <<V(1), Lit(3)>>, <<V(2)>>)>>,
          <<V(2)>>)) : callee \in {SumBranch, IncBranch, SinBranch}}
  \cup
  {Program("for_cond",
     Main(<<V(1), V(2)>>,
          <<ForEqn(Jaxpr("cond_body", <<>>, <<V(1), V(2), V(3)>>,
                         <<CondEqn(<<SumPairBranch, SwapPairBranch>>,
                                   <<V(1), V(2), V(3)>>, <<V(4), V(5)>>)>>,
                         <<V(4), V(5)>>),
                   n, FALSE, <<V(1), V(2)>>, <<V(3), V(4)>>)>>,
          <<V(3), V(4)>>)) : n \in 0..2}
  \cup
  {Program("for_for",
     Main(<<V(1)>>,
          <<ForEqn(Jaxpr("outer", <<>>, <<V(1), V(2)>>,
                         <<ForEqn(body, m, FALSE, <<V(2)>>, <<V(3)>>)>>,
                         <<V(3)>>),
                   n, FALSE, <<V(1)>>, <<V(2)>>)>>,
          <<V(2)>>)) :
     n \in 0..2, m \in 0..2,
     body \in {IncBody,
               Jaxpr("sin_body", <<>>, <<V(1), V(2)>>,
                     <<JaxprEqn("sin", <<V(2)>>, <<V(3)>>, NoParams)>>,
                     <<V(3)>>)}}

\* programs that carry constants: in the kernel itself, in the callee of
\* an inlined call, in the body of a loop, in a branch, in the trace of a
\* function handed to lower_fun
f32 == ShapedArray(<<>>, "float32")
F(n) == Var(n, f32)

ConstCallee ==
  Jaxpr("const_callee", <<V(9)>>, <<V(1), V(2)>>, <<Add(V(1), V(2), V(3))>>,
        <<V(3)>>)
ConstBody ==
  Jaxpr("const_body", <<V(9)>>, <<V(1), V(2)>>, <<Add(V(2), Lit(1), V(3))>>,
        <<V(3)>>)

CustomJvpEqn(callee, consts, num_consts, symbolic_zeros, ins, outs) ==
  JaxprEqn("custom_jvp_call", ins, outs,
           [call_jaxpr |-> ClosedJaxpr(callee, consts),
            num_consts |-> num_consts, symbolic_zeros |-> symbolic_zeros])

\* exp2 traces to exp(ln2 * x), the host scalar ln2 a literal that the
\* walker only passes on (written 2 here); a trace that closes over an
\* array returns it as a constant
Exp2Trace ==
  ClosedJaxpr(
    Jaxpr("exp2_traced", <<>>, <<F(1)>>,
          <<JaxprEqn("mul", <<Literal(2, f32), F(1)>>, <<F(2)>>, NoParams),
            JaxprEqn("exp", <<F(2)>>, <<F(3)>>, NoParams)>>, <<F(3)>>),
    <<>>)
Exp2TraceWithConsts ==
  ClosedJaxpr(
    Jaxpr("exp2_traced_consts", <<F(9)>>, <<F(1)>>,
          <<JaxprEqn("mul", <<F(9), F(1)>>, <<F(2)>>, NoParams),
            JaxprEqn("exp", <<F(2)>>, <<F(3)>>, NoParams)>>, <<F(3)>>),
    <<7>>)
Exp2Eqn(trace, x, out) == JaxprEqn("exp2", <<x>>, <<out>>, [trace |-> trace])

\* the program exp(ln2 * x) over an input of the given aval, and the
\* kernels that apply exp2 to such an input or are that program
ExpLn2(name, aval) ==
  Jaxpr(name, <<>>, <<Var(1, aval)>>,
        <<JaxprEqn("mul", <<Literal(2, f32), Var(1, aval)>>,
                   <<Var(2, aval)>>, NoParams),
          JaxprEqn("exp", <<Var(2, aval)>>, <<Var(3, aval)>>, NoParams)>>,
        <<Var(3, aval)>>)
Exp2Avals == {f32, ShapedArray(<<8, 128>>, "float32")}
Exp2Programs ==
  {Program("exp2_of",
     Jaxpr("main", <<>>, <<Var(1, aval)>>,
           <<Exp2Eqn(ClosedJaxpr(ExpLn2("exp2_traced", aval), <<>>),
                     Var(1, aval), Var(2, aval))>>,
           <<Var(2, aval)>>)) : aval \in Exp2Avals}
  \cup {Program("exp_ln2", ExpLn2("main", aval)) : aval \in Exp2Avals}

ConstPrograms ==
  {Program("constvars",
     Jaxpr("main", <<V(9)>>, <<V(1), V(2)>>, <<Add(V(1), V(2), V(3))>>,
           <<V(3)>>)),
   Program("pjit_consts",
     Main(<<V(1), V(2)>>,
          <<JaxprEqn("pjit", <<V(1), V(2)>>, <<V(3)>>,
                     [jaxpr |-> ClosedJaxpr(ConstCallee, <<7>>)])>>,
          <<V(3)>>)),
   Program("for_consts",
     Main(<<V(1)>>, <<ForEqn(ConstBody, 1, FALSE, <<V(1)>>, <<V(2)>>)>>,
          <<V(2)>>)),
   Program("for_consts",
     Main(<<V(1)>>, <<ForEqn(ConstBody, 0, FALSE, <<V(1)>>, <<V(2)>>)>>,
          <<V(2)>>)),
   Program("cond_consts",
     Main(<<V(1), V(2), V(3)>>,
          <<CondEqn(<<SumBranch, ConstCallee>>, <<V(1), V(2), V(3)>>,
                    <<V(4)>>)>>, <<V(4)>>))}
  \cup
  {Program("custom_jvp",
     Main(<<V(1), V(2)>>,
          <<CustomJvpEqn(c[1], c[2], c[3], c[4], <<V(1), V(2)>>, <<V(3)>>),
            Add(V(3), V(1), V(4))>>, <<V(4)>>)) :
     c \in {<<SumBranch, <<>>, 0, FALSE>>, <<ConstCallee, <<7>>, 0, FALSE>>,
            <<SumBranch, <<>>, 1, FALSE>>, <<SumBranch, <<>>, 0, TRUE>>}}
  \cup
  {Program("exp2",
     Jaxpr("main", <<>>, <<F(1)>>, <<Exp2Eqn(trace, F(1), F(2))>>,
           <<F(2)>>)) : trace \in {Exp2Trace, Exp2TraceWithConsts}}

Programs ==
  StraightPrograms \cup ForPrograms \cup ScanPrograms \cup CondPrograms
    \cup NestedPrograms \cup ConstPrograms \cup Exp2Programs

----------------------------------------------------------------------------
(* Grid mappings and module assembly: lower_jaxpr_to_module *)

\* core.BlockMapping, and None in its place
BlockMapping(block_shape, index_map_jaxpr) ==
  [none |-> FALSE, block_shape |-> block_shape,
   index_map_jaxpr |-> index_map_jaxpr]
NoBlockMapping == [none |-> TRUE]

\* core.GridMapping; mapped_dims is a set of 0-based grid dimensions
GridMapping(grid, block_mappings, mapped_dims, num_index_operands) ==
  [grid |-> grid, block_mappings |-> block_mappings,
   mapped_dims |-> mapped_dims, num_index_operands |-> num_index_operands]

\* the dimension_semantics argument: None, or a tuple whose entries are
\* strings or None (written "None")
NoSemantics == [none |-> TRUE, entries |-> <<>>]
Semantics(entries) == [none |-> FALSE, entries |-> entries]

Request(name, grid_mapping, jaxpr, dimension_semantics) ==
  [name |-> name, grid_mapping |-> grid_mapping, jaxpr |-> jaxpr,
   dimension_semantics |-> dimension_semantics]

\* LoweringContext.grid_indices: None, or the index values of the grid
NoGridIndices == [none |-> TRUE, indices |-> <<>>]
GridIndices(indices) == [none |-> FALSE, indices |-> indices]

FuncName(kind, i) == [kind |-> kind, i |-> i]

\* a block shape with every mapped dimension written as 1
WindowShape(block_shape) ==
  [d \in 1..Len(block_shape) |->
     IF block_shape[d] = Mapped THEN 1 ELSE block_shape[d]]

\* lower_jaxpr_to_func up to the call of the body: the block arguments are
\* the grid indices followed by one argument per input; the inputs that
\* are scalar-prefetch operands live in SMEM and have no block mapping
lower_jaxpr_to_func(jaxpr, grid_mapping, name) ==
  LET G == Len(grid_mapping.grid)
      scalar_prefetch == grid_mapping.num_index_operands
      block_mappings ==
        [k \in 1..scalar_prefetch |-> NoBlockMapping]
          \o grid_mapping.block_mappings
      n == Len(jaxpr.invars)
      rest == IF n > scalar_prefetch THEN n - scalar_prefetch ELSE 0
      memory_spaces ==
        [k \in 1..(scalar_prefetch + rest) |->
           IF k <= scalar_prefetch THEN "smem" ELSE ""]
      lengths_agree ==
        n = Len(block_mappings) /\ n = Len(memory_spaces)
      _get_arg_type(k) ==
        LET aval == jaxpr.invars[k].aval
            bm == block_mappings[k]
        IN IF bm.none
             THEN [type |-> aval_to_ir_type(aval, memory_spaces[k]),
                   block_shape |-> aval.shape]
             ELSE [type |->
                     aval_to_ir_type(
                       [aval EXCEPT !.shape = WindowShape(bm.block_shape)],
                       memory_spaces[k]),
                   block_shape |-> bm.block_shape]
  IN IF ~lengths_agree
       THEN [ok |-> FALSE, name |-> name, jaxpr |-> jaxpr, args |-> <<>>,
             block_shapes |-> <<>>, arg_types |-> <<>>,
             grid_indices |-> NoGridIndices]
       ELSE [ok |-> TRUE, name |-> name, jaxpr |-> jaxpr,
             args |-> [k \in 1..n |-> ArgVal(G + k)],
             block_shapes |-> [k \in 1..n |-> _get_arg_type(k).block_shape],
             arg_types |-> [k \in 1..G |-> dtype_to_ir_type("int32")]
                             \o [k \in 1..n |-> _get_arg_type(k).type],
             grid_indices |->
               GridIndices(Pick([i \in 1..G |-> ArgVal(i)],
                                {i \in 1..G :
                                   (i - 1) \notin grid_mapping.mapped_dims}))]

\* lower_jaxpr_to_transform_func up to the call of the body: one block
\* argument per input, block shapes the input shapes, no grid
lower_jaxpr_to_transform_func(jaxpr, memspaces, name) ==
  LET n == Len(jaxpr.invars)
  IN IF n # Len(memspaces)
       THEN [ok |-> FALSE, name |-> name, jaxpr |-> jaxpr, args |-> <<>>,
             block_shapes |-> <<>>, arg_types |-> <<>>,
             grid_indices |-> NoGridIndices]
       ELSE [ok |-> TRUE, name |-> name, jaxpr |-> jaxpr,
             args |-> [k \in 1..n |-> ArgVal(k)],
             block_shapes |-> [k \in 1..n |-> jaxpr.invars[k].aval.shape],
             arg_types |-> [k \in 1..n |->
                              aval_to_ir_type(jaxpr.invars[k].aval,
                                              memspaces[k])],
             grid_indices |-> NoGridIndices]

\* _get_semantics
_get_semantics(s) == IF s = "None" THEN "arbitrary" ELSE s

\* dimension semantics that read the override by grid dimension, also for
\* a mapped dimension
func_dimension_semantics_by_dimension(grid_mapping, dimension_semantics) ==
  LET G == Len(grid_mapping.grid)
      entries == dimension_semantics.entries
  IN IF dimension_semantics.none
       THEN [ok |-> TRUE,
             attr |-> [i \in 1..G |->
                         IF (i - 1) \in grid_mapping.mapped_dims
                           THEN _get_semantics("parallel")
                           ELSE _get_semantics("None")]]
       ELSE [ok |-> G <= Len(entries),
             attr |-> [i \in 1..G |->
                         IF i <= Len(entries)
                           THEN _get_semantics(entries[i]) ELSE ""]]

\* the dimension_semantics attribute: a mapped grid dimension is parallel;
\* every other dimension is arbitrary without an override and otherwise
\* takes the next entry of the override. taken counts the entries consumed
\* before dimension i; ok is false when the override runs out
func_dimension_semantics(grid_mapping, dimension_semantics) ==
  LET G == Len(grid_mapping.grid)
      mapped(i) == (i - 1) \in grid_mapping.mapped_dims
      taken(i) == Cardinality({j \in 1..(i - 1) : ~mapped(j)})
      entries == dimension_semantics.entries
  IN IF dimension_semantics.none
       THEN [ok |-> TRUE,
             attr |-> [i \in 1..G |->
                         IF mapped(i) THEN _get_semantics("parallel")
                         ELSE _get_semantics("None")]]
       ELSE [ok |-> taken(G + 1) <= Len(entries),
             attr |-> [i \in 1..G |->
                         IF mapped(i) THEN _get_semantics("parallel")
                         ELSE IF taken(i) < Len(entries)
                           THEN _get_semantics(entries[taken(i) + 1])
                         ELSE ""]]

NoAttributes == [none |-> TRUE]

\* a function that is born with a window_params attribute
FuncOp_with_window_params ==
  [name |-> prog.name, arg_types |-> prog.arg_types, body |-> emitted,
   results |-> outvals.vals, attributes |-> [window_params |-> <<>>]]

\* the function built from the walk that has just finished
FuncOp ==
  [name |-> prog.name, arg_types |-> prog.arg_types, body |-> emitted,
   results |-> outvals.vals, attributes |-> NoAttributes]

Trivial(grid_mapping) ==
  \A k \in 1..Len(grid_mapping.block_mappings) :
    grid_mapping.block_mappings[k].none

\* start the walk of a function body
StartWalk(f) ==
  /\ prog' = f
  /\ stack' = <<WalkFrame(f.jaxpr, f.args, f.block_shapes, <<>>)>>
  /\ status' = "running"
  /\ emitted' = <<>>
  /\ log' = <<>>
  /\ outvals' = NoOutputs
  /\ UNCHANGED <<error, request, call, ret>>

\* an exception raised by the module assembly itself
ModuleRaise(kind, names) ==
  /\ status' = "failed"
  /\ error' = [kind |-> kind, names |-> names]
  /\ stack' = <<>>
  /\ outvals' = NoOutputs
  /\ UNCHANGED <<prog, emitted, log, request, call, ret>>

\* lower_jaxpr_to_module enters lower_jaxpr_to_func for main
LowerJaxprToFunc ==
  /\ module.stage = "start"
  /\ status = "idle"
  /\ LET f == lower_jaxpr_to_func(request.jaxpr, request.grid_mapping,
                                  FuncName("main", 0))
     IN IF ~f.ok
          THEN /\ ModuleRaise("AssertionError", <<"safe_map">>)
               /\ UNCHANGED module
          ELSE /\ StartWalk(f)
               /\ module' = [module EXCEPT !.stage = "main"]

\* main is appended; a trivial grid mapping returns the module here
AppendMain ==
  /\ module.stage = "main"
  /\ status = "done"
  /\ module' = [module EXCEPT
                  !.funcs = <<FuncOp>>,
                  !.stage = IF Trivial(request.grid_mapping)
                              THEN "returned" ELSE "transforms"]
  /\ UNCHANGED <<prog, stack, emitted, status, error, outvals, log, request,
                 call, ret>>

\* one turn of the loop over the block mappings, up to the call of the
\* body of transform_i
LowerTransformFunc ==
  /\ module.stage = "transforms"
  /\ status = "done"
  /\ module.i < Len(request.grid_mapping.block_mappings)
  /\ LET gm == request.grid_mapping
         bm == gm.block_mappings[module.i + 1]
         memspaces == [k \in 1..(Len(gm.grid) + gm.num_index_operands) |->
                         IF k <= Len(gm.grid) THEN "" ELSE "smem"]
         f == lower_jaxpr_to_transform_func(
                bm.index_map_jaxpr.jaxpr, memspaces,
                FuncName("transform", module.i))
     IN IF bm.none
          THEN /\ ModuleRaise("AttributeError", <<"index_map_jaxpr">>)
               /\ UNCHANGED module
        ELSE IF bm.index_map_jaxpr.consts # <<>>
          THEN /\ ModuleRaise("NotImplementedError",
                              <<"Index map jaxpr with consts not supported.">>)
               /\ UNCHANGED module
        ELSE IF ~f.ok
          THEN /\ ModuleRaise("AssertionError", <<"safe_map">>)
               /\ UNCHANGED module
        ELSE /\ StartWalk(f)
             /\ module' = [module EXCEPT !.stage = "transform"]

\* transform_i is built: its window record and the function are appended
AppendTransform ==
  /\ module.stage = "transform"
  /\ status = "done"
  /\ LET bm == request.grid_mapping.block_mappings[module.i + 1]
     IN module' =
          [module EXCEPT
             !.window_params =
               Append(@, [window_bounds |-> WindowShape(bm.block_shape),
                          transform_indices |->
                            FuncName("transform", module.i)]),
             !.funcs = Append(@, FuncOp),
             !.i = @ + 1,
             !.stage = "transforms"]
  /\ UNCHANGED <<prog, stack, emitted, status, error, outvals, log, request,
                 call, ret>>

\* after the loop: the attributes of main, and the module is returned
AnnotateMain ==
  /\ module.stage = "transforms"
  /\ status = "done"
  /\ module.i = Len(request.grid_mapping.block_mappings)
  /\ LET gm == request.grid_mapping
         sem == func_dimension_semantics(gm, request.dimension_semantics)
         three == [scalar_prefetch |-> gm.num_index_operands,
                   window_params |-> module.window_params,
                   iteration_bounds |-> gm.grid]
         four == [scalar_prefetch |-> gm.num_index_operands,
                  window_params |-> module.window_params,
                  iteration_bounds |-> gm.grid,
                  dimension_semantics |-> sem.attr]
     IN IF ~sem.ok
          THEN /\ ModuleRaise("StopIteration", <<>>)
               /\ module' = [module EXCEPT !.funcs[1].attributes = three]
          ELSE /\ module' = [module EXCEPT !.funcs[1].attributes = four,
                                           !.stage = "returned"]
               /\ UNCHANGED <<prog, stack, emitted, status, error, outvals,
                              log, request, call, ret>>

\* a grid mapping without a grid and without block mappings for a kernel
\* of the library
TrivialGridMapping(jaxpr) ==
  GridMapping(<<>>, [k \in 1..Len(jaxpr.invars) |-> NoBlockMapping], {}, 0)

\* the grid of rank r, its dimension i of size i + 1
Grid(r) == [i \in 1..r |-> i + 1]

SmemRef == AbstractRef(<<1>>, "int32")
Operand == AbstractRef(<<8, 8>>, "float32")

\* an index map as pallas builds it: one input per grid dimension and per
\* scalar-prefetch operand, one block index per dimension of the operand
IndexMap(G, sp, consts) ==
  ClosedJaxpr(
    Jaxpr("index_map",
          [k \in 1..Len(consts) |-> V(G + sp + k)],
          [k \in 1..(G + sp) |-> IF k <= G THEN V(k) ELSE Var(k, SmemRef)],
          <<>>,
          IF G > 0 THEN <<V(1), Lit(0)>> ELSE <<Lit(0), Lit(0)>>),
    consts)

\* the block mappings of an operand: absent, present with a mapped leading
\* dimension, present with an index map that carries a constant
BlockMappingChoices(G, sp) ==
  {NoBlockMapping,
   BlockMapping(<<Mapped, 8>>, IndexMap(G, sp, <<>>)),
   BlockMapping(<<4, 8>>, IndexMap(G, sp, <<7>>))}

\* a kernel without equations over sp scalar-prefetch operands and n
\* operands
EmptyKernel(sp, n) ==
  Jaxpr("main", <<>>,
        [k \in 1..(sp + n) |->
           IF k <= sp THEN Var(k, SmemRef) ELSE Var(k, Operand)],
        <<>>, <<>>)

SemanticsChoices ==
  {NoSemantics}
    \cup {Semantics(e) :
            e \in UNION {[1..n -> {"parallel", "None"}] :
                           n \in 0..(MaxGrid + 1)}}

\* program_id at the top of a kernel, in a loop body, in both branches of a
\* cond and in an inlined call; and in an index map
ProgramId(axis, out) == JaxprEqn("program_id", <<>>, <<out>>, [axis |-> axis])

PidBody(a) ==
  Jaxpr("pid_body", <<>>, <<V(1), V(2)>>, <<ProgramId(a, V(3))>>, <<V(3)>>)

PidKernels(a) ==
  {Main(<<V(1)>>, <<ProgramId(a, V(2))>>, <<V(2)>>),
   Main(<<V(1)>>, <<ForEqn(PidBody(a), 1, FALSE, <<V(1)>>, <<V(2)>>)>>,
        <<V(2)>>),
   Main(<<V(1), V(2), V(3)>>,
        <<CondEqn(<<PidBody(a), PidBody(a)>>, <<V(1), V(2), V(3)>>,
                  <<V(4)>>)>>, <<V(4)>>),
   Main(<<V(1)>>, <<PjitEqn(PidBody(a), <<V(1), Lit(3)>>, <<V(2)>>)>>,
        <<V(2)>>)}

PidIndexMap(G, a) ==
  ClosedJaxpr(Jaxpr("index_map", <<>>, [k \in 1..G |-> V(k)],
                    <<ProgramId(a, V(G + 1))>>, <<V(G + 1), Lit(0)>>),
              <<>>)

Axes == (0 - 1)..MaxGrid

ProgramIdRequests ==
  UNION {
    {Request("program_id",
             GridMapping(Grid(r),
                         [k \in 1..Len(kernel.invars) |-> NoBlockMapping],
                         md, 0),
             kernel, NoSemantics) :
       md \in SUBSET (0..(r - 1)), kernel \in PidKernels(a)}
    \cup
    {Request("program_id_index_map",
             GridMapping(Grid(r),
                         <<BlockMapping(<<4, 8>>, PidIndexMap(r, a))>>,
                         md, 0),
             EmptyKernel(0, 1), NoSemantics) :
       md \in SUBSET (0..(r - 1))} :
    <<r, a>> \in (0..MaxGrid) \X Axes}

ModuleRequests ==
  UNION {
    {Request("module", GridMapping(Grid(r), bms, md, sp),
             EmptyKernel(sp, Len(bms)), ds) :
       md \in SUBSET (0..(r - 1)), ds \in SemanticsChoices,
       bms \in UNION {[1..n -> BlockMappingChoices(r, sp)] : n \in 1..2}} :
    <<r, sp>> \in (0..MaxGrid) \X {0, 1}}

Requests ==
  {Request(p.name, TrivialGridMapping(p.jaxpr), p.jaxpr, NoSemantics) :
     p \in Programs}
    \cup ModuleRequests \cup ProgramIdRequests

Init ==
  /\ request \in Requests
  /\ module = [stage |-> "start", funcs |-> <<>>, i |-> 0,
               window_params |-> <<>>]
  /\ prog = NoProgram
  /\ stack = <<>>
  /\ emitted = <<>>
  /\ status = "idle"
  /\ error = NoError
  /\ outvals = NoOutputs
  /\ log = <<>>
  /\ call = NoCall
  /\ ret = NoRet

Next ==
  \/ LowerJaxprToFunc
  \/ AppendMain
  \/ LowerTransformFunc
  \/ AppendTransform
  \/ AnnotateMain
  \/ EnterSubcomp
  \/ LowerEqn
  \/ UnimplementedPrimitive
  \/ ReturnToTop
  \/ ForRule
  \/ ForIteration
  \/ ReturnToFor
  \/ ForReturn
  \/ ScanRule
  \/ ScanIteration
  \/ ReturnToScan
  \/ ScanReturn
  \/ CondRule
  \/ CondBranch
  \/ ReturnToCond
  \/ CondReturn
  \/ PjitRule
  \/ PjitReturn
  \/ ProgramIdRule
  \/ CustomJvpRule
  \/ Exp2Rule
  \/ LowerFunReturn
  \/ ExpRule
  \/ MulRule

Spec == Init /\ [][Next]_vars

----------------------------------------------------------------------------
(* Meaning of programs and of emitted instructions, used by the properties *)

\* input values the properties range over
Inputs == {0, 1, 2}
Valuations == [1..Len(request.jaxpr.invars) -> Inputs]

\* the value an emitted SSA handle computes under a valuation of the block
\* arguments; the result of an if is what the region selected by its
\* one-bit predicate yields
RECURSIVE EvalIR(_, _, _)
EvalIR(v, instrs, val) ==
  CASE v[1] = "arg" -> val[v[2]]
    [] v[1] = "host" -> v[2]
    [] OTHER ->
         LET ins == instrs[v[2]]
         IN CASE ins.op = "arith.constant" -> ins.imm
              [] ins.op = "arith.addi" ->
                   EvalIR(ins.ins[1], instrs, val)
                     + EvalIR(ins.ins[2], instrs, val)
              [] ins.op = "arith.trunci" ->
                   EvalIR(ins.ins[1], instrs, val) % 2
              [] ins.op = "scf.if" ->
                   LET taken == IF EvalIR(ins.ins[1], instrs, val) = 1
                                  THEN "then" ELSE "else"
                       y == CHOOSE j \in 1..Len(instrs) :
                              /\ instrs[j].op = "scf.yield"
                              /\ instrs[j].region =
                                   Append(ins.region, <<v[2], taken>>)
                   IN EvalIR(instrs[y].ins[v[3] + 1], instrs, val)

EvalAll(vs, instrs, val) == [k \in 1..Len(vs) |-> EvalIR(vs[k], instrs, val)]

\* the outputs of a straight-line jaxpr of additions on given inputs
AtomValue(env, atom) == IF atom.lit THEN atom.val ELSE env[atom.id]

RECURSIVE EvalEqns(_, _, _)
EvalEqns(jaxpr, env, k) ==
  IF k > Len(jaxpr.eqns) THEN env
  ELSE LET eqn == jaxpr.eqns[k]
       IN EvalEqns(jaxpr,
                   [env EXCEPT ![eqn.outvars[1].id] =
                      AtomValue(env, eqn.invars[1])
                        + AtomValue(env, eqn.invars[2])],
                   k + 1)

EvalJaxpr(jaxpr, ins) ==
  LET env0 == [id \in VarIds(jaxpr) |->
                 IF \E k \in 1..Len(jaxpr.invars) : jaxpr.invars[k].id = id
                   THEN ins[CHOOSE k \in 1..Len(jaxpr.invars) :
                              jaxpr.invars[k].id = id]
                   ELSE 0]
      env == EvalEqns(jaxpr, env0, 1)
  IN [k \in 1..Len(jaxpr.outvars) |-> AtomValue(env, jaxpr.outvars[k])]

\* n sequential applications of a for body to the loop arguments: the body
\* sees (index, arguments) and returns the new values of the arguments that
\* are not references
RECURSIVE ForSequenced(_, _, _, _, _, _)
ForSequenced(body, is_ref, nsteps, reverse, k, vals) ==
  IF k >= nsteps THEN vals
  ELSE LET i == IF reverse THEN nsteps - k - 1 ELSE k
           new == EvalJaxpr(body, <<i>> \o vals)
       IN ForSequenced(body, is_ref, nsteps, reverse, k + 1,
            [p \in 1..Len(vals) |->
               IF is_ref[p] THEN vals[p]
               ELSE new[Cardinality({q \in 1..p : ~is_ref[q]})]])

\* n sequential applications of a counted-loop scan body to (consts; index,
\* carried values)
RECURSIVE ScanSequenced(_, _, _, _)
ScanSequenced(body, consts, n, carry) ==
  IF n = 0 THEN carry
  ELSE ScanSequenced(body, consts, n - 1, EvalJaxpr(body, consts \o carry))

----------------------------------------------------------------------------
(* Properties of the walker: unimplemented primitives *)

UnimplementedReached == AtEquation /\ CurEqn.primitive \notin lowering_rules

\* C1: when jaxpr_subcomp reaches an equation whose primitive has no entry
\* in lowering_rules it fails at that equation with an error naming the
\* primitive; no rule is invoked for it, nothing is emitted for it, no later
\* equation is processed (no step follows a failure) and no output values
\* are returned.
C1_UnimplementedPrimitiveFails ==
  [][/\ status # "failed"
     /\ UnimplementedReached =>
          /\ status' = "failed"
          /\ error'.kind = "NotImplementedError"
          /\ \E k \in 1..Len(error'.names) :
               error'.names[k] = CurEqn.primitive
          /\ log' = Append(log, ReachedEqn)
          /\ emitted' = emitted
          /\ stack' = <<>>
     /\ status' = "failed" => (~outvals'.returned /\ stack' = <<>>)]_vars

\* the second of three equations used sin: the first was lowered, the walk
\* failed naming sin, the third was never reached
C1_Witness ==
  /\ request.name = "straight"
  /\ status = "failed"
  /\ error = [kind |-> "NotImplementedError",
              names |-> <<"Unimplemented primitive in Pallas TPU lowering",
                          "sin">>]
  /\ log[Len(log)].ev = "eqn"
  /\ log[Len(log)].k = 2
  /\ Len(emitted) = 1
  /\ ~outvals.returned

----------------------------------------------------------------------------
(* Properties of the walker: loop unrolling *)

\* a for or scan rule has run all its iterations and is about to return
LoopDone ==
  /\ Running
  /\ Top.kind \in {"for", "scan"}
  /\ ~(Top.i < (IF Top.kind = "for" THEN RuleEqn.params.nsteps
                                    ELSE RuleEqn.params.length))

LoopCount ==
  IF RuleEqn.primitive = "for" THEN RuleEqn.params.nsteps
                               ELSE RuleEqn.params.length

\* the walks of the loop body since the rule was entered, and their returns
BodyCalls ==
  SelectSeq(SubSeq(log, Top.mark + 1, Len(log)),
            LAMBDA e : e.ev = "subcomp" /\ e.depth = Len(stack) + 1)
BodyOuts ==
  SelectSeq(SubSeq(log, Top.mark + 1, Len(log)),
            LAMBDA e : e.ev = "out" /\ e.depth = Len(stack) + 1)

\* the carried values among values aligned with the operands of the loop
\* equation: for a for loop the operands that are not references, for a
\* scan the operands after the constants and the loop index
LoopCarried(full) ==
  IF RuleEqn.primitive = "for"
    THEN Pick(full, {k \in 1..Len(full) : ~RuleEqn.invars[k].aval.ref})
    ELSE SubSeq(full,
                RuleEqn.params.num_consts
                  + (IF RuleEqn.params.num_carry > 0 THEN 2 ELSE 1),
                Len(full))

InitialCarried == LoopCarried(log[Top.mark].vals)
CallCarried(e) ==
  IF RuleEqn.primitive = "for" THEN LoopCarried(Tail(e.vals))
                               ELSE LoopCarried(e.vals)
AnsCarried(e) ==
  IF RuleEqn.primitive = "for" THEN LoopCarried(e.vals)
  ELSE IF RuleEqn.params.num_carry > 0 THEN Tail(e.vals) ELSE e.vals

\* the position of a program output among the outputs of its only equation
OutputOf(k) ==
  CHOOSE p \in 1..Len(request.jaxpr.eqns[1].outvars) :
    request.jaxpr.eqns[1].outvars[p].id = request.jaxpr.outvars[k].id

\* the carried outputs of a finished single-loop program compute what the
\* sequenced applications of its body compute (the loop index a scan
\* returns first is not one of the values the unrolled loop carries)
LoopSemantics ==
  (status = "done"
     /\ request.name \in {"for", "for2", "for_ref", "scan", "scan_const"}) =>
    \A val \in Valuations :
      LET eqn == request.jaxpr.eqns[1]
          p == eqn.params
          ins == [k \in 1..Len(eqn.invars) |-> AtomValue(val, eqn.invars[k])]
          final ==
            IF eqn.primitive = "for"
              THEN ForSequenced(p.jaxpr,
                                [k \in 1..Len(ins) |->
                                   eqn.invars[k].aval.ref],
                                p.nsteps, p.reverse, 0, ins)
              ELSE ScanSequenced(p.jaxpr.jaxpr,
                                 SubSeq(ins, 1, p.num_consts), p.length,
                                 SubSeq(ins, p.num_consts + 1, Len(ins)))
      IN \A k \in 1..Len(request.jaxpr.outvars) :
           (eqn.primitive = "scan" => OutputOf(k) > 1) =>
             EvalIR(outvals.vals[k], emitted, val) = final[OutputOf(k)]

\* C2: a counted loop of N iterations lowered by the for rule or the scan
\* rule walks the loop body exactly N times, iteration k receiving as
\* carried values the values iteration k-1 returned (the first the initial
\* ones); the rule returns the values of the last iteration (the initial
\* ones for N = 0), which compute N sequential applications of the body.
C2_LoopUnrolledNTimes ==
  [][/\ LoopDone =>
          /\ Len(BodyCalls) = LoopCount
          /\ Len(BodyOuts) = LoopCount
          /\ \A k \in 1..LoopCount :
               CallCarried(BodyCalls[k]) =
                 IF k = 1 THEN InitialCarried ELSE BodyOuts[k - 1].vals
          /\ log'[Len(log')].ev = "ans"
          /\ AnsCarried(log'[Len(log')]) =
               IF LoopCount = 0 THEN InitialCarried
                                ELSE BodyOuts[LoopCount].vals
     /\ LoopSemantics']_vars

\* four iterations of 'accumulator += 1': the body was walked four times
\* and the output computes 4 from the start value 0
C2_Witness ==
  /\ request.name = "for"
  /\ status = "done"
  /\ request.jaxpr.eqns[1].params.nsteps = 4
  /\ request.jaxpr.eqns[1].params.jaxpr = IncBody
  /\ Len(SelectSeq(log, LAMBDA e : e.ev = "subcomp" /\ e.name = "inc")) = 4
  /\ EvalIR(outvals.vals[1], emitted, <<0>>) = 4

----------------------------------------------------------------------------
(* Properties of the walker: cond *)

\* a cond rule has filled both regions and is about to return
CondDone ==
  /\ Running
  /\ Top.kind = "cond"
  /\ Top.phase = "done"

CondPred == log[Top.mark].vals[1]
CondArgs == Tail(log[Top.mark].vals)
CondResults ==
  [k \in 1..Len(RuleEqn.outvars) |-> <<"ir", Top.if_id, k - 1>>]

\* the reference evaluation is that of jaxprs of additions
Additive(jaxpr) ==
  \A e \in 1..Len(jaxpr.eqns) : jaxpr.eqns[e].primitive = "add"
CondAdditive ==
  \A b \in 1..Len(RuleEqn.params.branches) :
    Additive(RuleEqn.params.branches[b].jaxpr)

\* what branches[b] (0-based) computes on the operands of the cond
BranchValue(b, val) ==
  EvalJaxpr(RuleEqn.params.branches[b + 1].jaxpr,
            EvalAll(CondArgs, emitted, val))

\* the jaxprs walked for the cond, in order
CondWalks ==
  SelectSeq(SubSeq(log, Top.mark + 1, Len(log)),
            LAMBDA e : e.ev = "subcomp" /\ e.depth = Len(stack) + 1)

\* C3: for a 2-branch cond the then region (taken when the one-bit
\* predicate is 1) holds the lowering of branches[1] and the else region
\* that of branches[0], so the if computes branches[1] on predicate 1 and
\* branches[0] on predicate 0; the rule returns the results of the if, as
\* one value for a single output and as a sequence for several.
C3_CondRegionsFollowBranches ==
  [][(CondDone /\ Len(RuleEqn.params.branches) = 2 /\ CondAdditive) =>
       /\ Len(CondWalks) = 2
       /\ CondWalks[1].name = RuleEqn.params.branches[2].jaxpr.name
       /\ CondWalks[2].name = RuleEqn.params.branches[1].jaxpr.name
       /\ \A val \in Valuations :
            EvalAll(CondResults, emitted, val) =
              IF EvalIR(CondPred, emitted, val) % 2 = 1
                THEN BranchValue(1, val)
                ELSE BranchValue(0, val)
       /\ LET ans == log'[Len(log')]
          IN /\ ans.ev = "ans"
             /\ ans.name = "cond"
             /\ ans.vals = CondResults
             /\ (ans.k = 1) = (Len(RuleEqn.outvars) = 1)]_vars

\* cond(p, a, b) with branches (a + b, a + 1) returned one value that
\* computes a + 1 for p = 1 and a + b for p = 0
C3_Witness ==
  /\ request.name = "cond"
  /\ request.jaxpr.eqns[1].params.branches[1].jaxpr = SumBranch
  /\ request.jaxpr.eqns[1].params.branches[2].jaxpr = IncBranch
  /\ log # <<>>
  /\ log[Len(log)].ev = "ans"
  /\ log[Len(log)].name = "cond"
  /\ log[Len(log)].k = 1
  /\ EvalIR(log[Len(log)].vals[1], emitted, <<1, 2, 2>>) = 3
  /\ EvalIR(log[Len(log)].vals[1], emitted, <<0, 2, 2>>) = 4

----------------------------------------------------------------------------
(* Properties of module assembly *)

Returned_ == module.stage = "returned"
Failed == status = "failed"
BlockMappings == request.grid_mapping.block_mappings
AllAbsent == \A k \in 1..Len(BlockMappings) : BlockMappings[k].none
MainFunc == module.funcs[1]
GridRank == Len(request.grid_mapping.grid)
IsMappedDim(i) == (i - 1) \in request.grid_mapping.mapped_dims
Override == request.dimension_semantics

\* C14: for a grid mapping whose block mappings are all absent the module
\* returned holds exactly one function, main, which carries none of the
\* attributes window_params, scalar_prefetch, iteration_bounds,
\* dimension_semantics.
C14_TrivialGridSingleFunction ==
  (Returned_ /\ AllAbsent) =>
    /\ Len(module.funcs) = 1
    /\ MainFunc.name = FuncName("main", 0)
    /\ MainFunc.attributes = NoAttributes

\* a module was returned for a grid of rank 2 without block mappings, although
\* the caller passed dimension semantics
C14_Witness ==
  /\ Returned_ /\ AllAbsent
  /\ request.name = "module"
  /\ GridRank = 2
  /\ ~Override.none
  /\ Len(module.funcs) = 1

\* the request fails for no reason other than its block mappings: no index
\* map carries constants and no override is passed
PlainMappings ==
  /\ Override.none
  /\ \A k \in 1..Len(BlockMappings) :
       BlockMappings[k].none \/ BlockMappings[k].index_map_jaxpr.consts = <<>>

\* C15: for a grid mapping with at least one block mapping present (also
\* when others are absent) the module returned holds main and then one
\* transform_i per operand in order; window_params has one record per
\* transform function with the operand's block shape (mapped written as 1)
\* and a reference to transform_i; scalar_prefetch is the number of
\* scalar-prefetch operands and iteration_bounds the grid.
C15_TransformPerOperand ==
  (~AllAbsent /\ PlainMappings /\ (Returned_ \/ Failed)) =>
    /\ Returned_
    /\ Len(module.funcs) = 1 + Len(BlockMappings)
    /\ MainFunc.name = FuncName("main", 0)
    /\ \A k \in 1..Len(BlockMappings) :
         /\ module.funcs[k + 1].name = FuncName("transform", k - 1)
         /\ MainFunc.attributes.window_params[k] =
              [window_bounds |-> WindowShape(BlockMappings[k].block_shape),
               transform_indices |-> FuncName("transform", k - 1)]
    /\ Len(MainFunc.attributes.window_params) = Len(BlockMappings)
    /\ MainFunc.attributes.scalar_prefetch =
         request.grid_mapping.num_index_operands
    /\ MainFunc.attributes.iteration_bounds = request.grid_mapping.grid

\* the dimension_semantics attribute of main, and the grid dimensions that
\* are not mapped, in order
DimensionSemantics == MainFunc.attributes.dimension_semantics
Unmapped == SortedSeq({i \in 1..GridRank : ~IsMappedDim(i)})
Annotated == Returned_ /\ ~AllAbsent

C17_WrongCountFails ==
  (~Override.none /\ Len(Override.entries) # GridRank) =>
    /\ ~Returned_
    /\ (Failed /\ module.stage = "transforms"
          /\ module.i = Len(BlockMappings)) =>
         error.names # <<>>

----------------------------------------------------------------------------
(* Properties of program_id *)

ProgramIdReached == AtEquation /\ CurEqn.primitive = "program_id"
Axis == CurEqn.params.axis
\* a grid is active while the body of main is lowered
GridActive == prog.name.kind = "main"
ProgramIdReturned(v) ==
  /\ status' = "running"
  /\ log'[Len(log')].ev = "ans"
  /\ log'[Len(log')].name = "program_id"
  /\ log'[Len(log')].vals = <<v>>
  /\ emitted' = emitted
ProgramIdFailed ==
  /\ status' = "failed"
  /\ error'.kind = "ValueError"
  /\ error'.names = <<"program id", Axis>>

\* C18 (as claimed): program_id with axis a returns the index value of grid
\* dimension a whenever a grid is active and 0 <= a < the rank of the grid,
\* also when some grid dimensions are mapped and inside nested scopes, and
\* fails with an error naming the axis otherwise.
C18_ProgramIdByGridDimension ==
  [][ProgramIdReached =>
       IF GridActive /\ 0 <= Axis /\ Axis < GridRank
         THEN ProgramIdReturned(ArgVal(Axis + 1))
         ELSE ProgramIdFailed]_vars

\* C18 (amended): program_id with axis a returns the index value of the
\* a-th grid dimension that is not mapped whenever a grid is active and
\* 0 <= a < the number of grid dimensions that are not mapped, also inside
\* nested scopes, and fails with an error naming the axis otherwise.
C18_ProgramIdByUnmappedDimension ==
  [][ProgramIdReached =>
       IF GridActive /\ 0 <= Axis /\ Axis < Len(Unmapped)
         THEN ProgramIdReturned(ArgVal(Unmapped[Axis + 1]))
         ELSE ProgramIdFailed]_vars

\* inside a nested walk, under a grid of rank 2 whose dimension 0 is mapped,
\* program_id(0) returned the index of grid dimension 1
C18_Witness ==
  /\ request.name = "program_id"
  /\ GridRank = 2
  /\ request.grid_mapping.mapped_dims = {0}
  /\ log # <<>>
  /\ log[Len(log)].ev = "ans"
  /\ log[Len(log)].name = "program_id"
  /\ log[Len(log)].depth > 1
  /\ log[Len(log)].vals = <<ArgVal(2)>>

----------------------------------------------------------------------------
(* Properties of the cond rule: number of branches *)

CondReached == AtEquation /\ CurEqn.primitive = "cond"

\* C19: a cond whose number of branches is not two (one, or three or more)
\* is rejected as unsupported before any if instruction is emitted.
C19_ExactlyTwoBranches ==
  [][(CondReached /\ Len(CurEqn.params.branches) # 2)
       => /\ status' = "failed"
          /\ error'.kind = "NotImplementedError"
          /\ emitted' = emitted]_vars

----------------------------------------------------------------------------
(* Properties of embedded constants *)

Carries(closed_jaxpr) ==
  closed_jaxpr.consts # <<>> \/ closed_jaxpr.jaxpr.constvars # <<>>

\* the jaxpr, or a program that its lowering hands to a rule or to the
\* walker, carries constants: the callee of a pjit or custom_jvp_call, the
\* body of a scan, the trace of exp2, a branch of a cond, the body of a for
\* loop that runs
CarriesConstants(jaxpr) ==
  \/ jaxpr.constvars # <<>>
  \/ \E e \in 1..Len(jaxpr.eqns) :
       LET eqn == jaxpr.eqns[e]
           p == eqn.params
       IN CASE eqn.primitive = "pjit" -> Carries(p.jaxpr)
            [] eqn.primitive = "custom_jvp_call" -> Carries(p.call_jaxpr)
            [] eqn.primitive = "scan" -> Carries(p.jaxpr)
            [] eqn.primitive = "exp2" -> Carries(p.trace)
            [] eqn.primitive = "cond" ->
                 \E b \in 1..Len(p.branches) : Carries(p.branches[b])
            [] eqn.primitive = "for" ->
                 p.nsteps > 0 /\ p.jaxpr.constvars # <<>>
            [] OTHER -> FALSE

RequestCarriesConstants ==
  \/ CarriesConstants(request.jaxpr)
  \/ \E k \in 1..Len(BlockMappings) :
       /\ ~BlockMappings[k].none
       /\ Carries(BlockMappings[k].index_map_jaxpr)

EnteringWithConstvars ==
  /\ Running
  /\ Top.kind = "jaxpr_subcomp"
  /\ Top.pc = 0
  /\ Top.jaxpr.constvars # <<>>

\* C20: a request whose kernel, inlined pjit or custom_jvp callee, scan
\* body, lower_fun trace or index map carries constants never yields a
\* module; and jaxpr_subcomp entered on a program with constant variables
\* fails at once: nothing is bound, no equation is reached, nothing emitted.
C20_ConstantsNeverLowered ==
  /\ [](RequestCarriesConstants => ~Returned_)
  /\ [][EnteringWithConstvars
          => /\ status' = "failed"
             /\ error' = [kind |-> "AssertionError",
                          names |-> <<"constvars">>]
             /\ emitted' = emitted
             /\ log' = Append(log, Event("subcomp", Top.jaxpr.name,
                                         Len(stack), 0, Top.args))]_vars

\* the callee of an inlined pjit carried a constant: the walk entered for
\* it failed on its constant variables
C20_Witness ==
  /\ request.name = "pjit_consts"
  /\ Failed
  /\ error = [kind |-> "AssertionError", names |-> <<"constvars">>]
  /\ log[Len(log)].ev = "subcomp"
  /\ log[Len(log)].depth = 2

----------------------------------------------------------------------------
(* Properties of failures *)

\* C21: a failure raised while lowering, in a rule or in a walk nested in a
\* cond branch, a loop iteration or an inlined call, leaves every enclosing
\* activation at once; nothing is caught or retried: no step of the
\* lowering follows it, so no further equation is processed, and neither
\* output values nor a module are returned.
C21_FailureAborts ==
  /\ [](Failed => /\ stack = <<>>
                  /\ ~outvals.returned
                  /\ ~Returned_
                  /\ error.kind # "")
  /\ [][~Failed]_vars

\* a primitive without a rule was met two scopes below the kernel: the
\* failure ended the whole lowering
C21_Witness ==
  /\ Failed
  /\ error.kind = "NotImplementedError"
  /\ log # <<>>
  /\ log[Len(log)].ev = "eqn"
  /\ log[Len(log)].depth >= 4
  /\ stack = <<>>
  /\ module.stage = "main"

----------------------------------------------------------------------------
(* Properties of exp2 *)

\* the instructions of a multiplication of the kernel input by the host
\* scalar ln2 followed by one exp of the product
ExpLn2Instrs ==
  LET aval == request.jaxpr.invars[1].aval
      type == aval_to_ir_type(aval, "")
      product == _mul_lowering_rule(
                   RuleContext(<<f32, aval>>, <<aval>>, <<>>),
                   HostVal(2), ArgVal(1), NoType, type, 0)
      exp == _exp_lowering_rule(RuleContext(<<aval>>, <<aval>>, <<>>),
                                product.out[1], type, Len(product.instrs))
  IN PlaceAll(product.instrs \o exp.instrs, <<>>)

\* C22: a kernel that applies exp2 to its input and the kernel
\* exp(ln2 * x) are lowered to the same instructions, those of a
\* multiplication of x by the constant ln2 followed by one exp, with the
\* same output value; the hardware exp2 instruction is never emitted.
C22_Exp2AsExpLn2 ==
  /\ (request.name \in {"exp2_of", "exp_ln2"} /\ status = "done") =>
       /\ emitted = ExpLn2Instrs
       /\ outvals.vals = <<IrVal(Len(emitted))>>
       /\ emitted[Len(emitted)].op = "math.exp"
       /\ emitted[Len(emitted) - 1].op = "arith.mulf"
  /\ \A k \in 1..Len(emitted) : emitted[k].op # "math.exp2"

\* exp2 of a float32 vector was lowered: constant, broadcast, product, exp
C22_Witness ==
  /\ request.name = "exp2_of"
  /\ request.jaxpr.invars[1].aval.shape = <<8, 128>>
  /\ status = "done"
  /\ Len(emitted) = 4
  /\ emitted[2].op = "vector.broadcast"
  /\ outvals.returned

----------------------------------------------------------------------------
(* Shardings: sharding_impls.py, one call of a method at a time *)

\* what shard_shape reads of the HLO sharding of the receiver: whether it is
\* replicated, and the number of ways each dimension is partitioned
HloSharding(replicated, partitions) ==
  [replicated |-> replicated, partitions |-> partitions]

\* the loop of shard_shape from dimension dim (0-based) on, out the
\* quotients so far
RECURSIVE shard_shape_loop(_, _, _, _)
shard_shape_loop(global_shape, partitions, dim, out) ==
  IF dim >= Len(global_shape) THEN Returned(<<>>, out)
  ELSE LET s == global_shape[dim + 1]
           p == partitions[dim + 1]
           quotient == s \div p
           remainder == s % p
       IN IF remainder # 0
            THEN Raised("ValueError", <<"array axis", dim>>, <<>>)
            ELSE shard_shape_loop(global_shape, partitions, dim + 1,
                                  Append(out, quotient))

\* shard_shape that rounds the quotient up where the partitions do not
\* divide the dimension
shard_shape_padded(hlo_sharding, global_shape) ==
  IF hlo_sharding.replicated THEN Returned(<<>>, global_shape)
  ELSE Returned(<<>>,
                [d \in 1..Len(global_shape) |->
                   (global_shape[d] + hlo_sharding.partitions[d] - 1)
                     \div hlo_sharding.partitions[d]])

shard_shape(hlo_sharding, global_shape) ==
  IF hlo_sharding.replicated THEN Returned(<<>>, global_shape)
  ELSE IF Len(hlo_sharding.partitions) # Len(global_shape)
    THEN Raised("AssertionError", <<>>, <<>>)
  ELSE shard_shape_loop(global_shape, hlo_sharding.partitions, 0, <<>>)

\* global shapes and shardings of their rank; a replicated sharding
\* partitions no dimension
GlobalDims == {0, 1, 2, 3, 4, 6}
Ways == {1, 2, 3}
ShardShapeCalls ==
  UNION {
    {[rule |-> "shard_shape", global_shape |-> shape,
      hlo_sharding |-> HloSharding(FALSE, partitions)] :
       shape \in [1..r -> GlobalDims], partitions \in [1..r -> Ways]}
    \cup
    {[rule |-> "shard_shape", global_shape |-> shape,
      hlo_sharding |-> HloSharding(TRUE, [d \in 1..r |-> 1])] :
       shape \in [1..r -> GlobalDims]} : r \in 0..MaxRank}

\* the product of the entries of a sequence
RECURSIVE Product(_)
Product(shape) ==
  IF shape = <<>> THEN 1 ELSE shape[1] * Product(Tail(shape))

\* xs[::-1]
Reversed(xs) == [k \in 1..Len(xs) |-> xs[Len(xs) + 1 - k]]

\* np.cumprod
RECURSIVE cumprod(_)
cumprod(xs) ==
  IF xs = <<>> THEN <<>>
  ELSE LET front == cumprod(SubSeq(xs, 1, Len(xs) - 1))
       IN Append(front, IF front = <<>> THEN xs[Len(xs)]
                        ELSE front[Len(front)] * xs[Len(xs)])

\* strides_for_sizes: the strides of major-to-minor sizes
strides_for_sizes(sizes) ==
  LET c == Reversed(cumprod(Reversed(sizes)))
  IN [k \in 1..Len(sizes) |-> c[k] \div sizes[k]]

\* the loop of unflatten_superdims: the length of the longest run
\* 0, stride, 2 * stride, ... at the head of flat_assignment is the next
\* dimension, and every size-th entry is kept
RECURSIVE unflatten_superdims_loop(_, _)
unflatten_superdims_loop(flat_assignment, dims) ==
  IF Len(flat_assignment) <= 1 THEN Returned(<<>>, dims)
  ELSE LET n == Len(flat_assignment)
           stride == flat_assignment[2]
           breaks == {i \in 0..(n - 1) : flat_assignment[i + 1] # i * stride}
           size == IF breaks = {} THEN n
                   ELSE CHOOSE i \in breaks : \A j \in breaks : i <= j
       IN IF size <= 1 THEN Raised("AssertionError", <<>>, <<>>)
          ELSE unflatten_superdims_loop(
                 [k \in 1..((n + size - 1) \div size) |->
                    flat_assignment[(k - 1) * size + 1]],
                 Append(dims, <<size, stride>>))

unflatten_superdims(assignment) ==
  IF assignment = <<>> THEN Raised("IndexError", <<>>, <<>>)
  ELSE IF assignment[1] # 0 THEN Raised("NotImplementedError", <<>>, <<>>)
  ELSE unflatten_superdims_loop(assignment, <<>>)

\* a dict built from zip(keys, vals): the last entry of a key wins
HasKey(keys, key) == \E k \in 1..Len(keys) : keys[k] = key
Lookup(keys, vals, key) ==
  vals[CHOOSE k \in 1..Len(keys) :
         /\ keys[k] = key
         /\ \A j \in 1..Len(keys) : keys[j] = key => j <= k]

\* the while loop of explode_superdims on one super-dimension: new_dims
\* minor first
RECURSIVE explode_one(_, _, _, _, _)
explode_one(sizes, strides, size, stride, new_dims) ==
  IF ~HasKey(strides, stride) THEN Raised("KeyError", <<stride>>, <<>>)
  ELSE LET target_size == Lookup(strides, sizes, stride)
       IN IF size > target_size
            THEN IF target_size <= 1 \/ size % target_size # 0
                   THEN Raised("AssertionError", <<>>, <<>>)
                   ELSE explode_one(sizes, strides, size \div target_size,
                                    stride * target_size,
                                    Append(new_dims, <<target_size, stride>>))
          ELSE IF size # target_size
            THEN Raised("AssertionError", <<>>, <<>>)
          ELSE Returned(<<>>, Append(new_dims, <<size, stride>>))

\* the for loop of explode_superdims over the reversed dims
RECURSIVE explode_loop(_, _, _, _)
explode_loop(sizes, strides, dims, final_dims) ==
  IF dims = <<>> THEN Returned(<<>>, final_dims)
  ELSE LET one == explode_one(sizes, strides, dims[1][1], dims[1][2], <<>>)
       IN IF ~one.ok THEN one
          ELSE explode_loop(sizes, strides, Tail(dims),
                            final_dims \o Reversed(one.out))

\* explode_superdims that keeps the order unflatten_superdims found the
\* dimensions in, minor first
explode_superdims_minor_first(sizes, dims) ==
  explode_loop(sizes, strides_for_sizes(sizes), dims, <<>>)

explode_superdims(sizes, dims) ==
  explode_loop(sizes, strides_for_sizes(sizes), Reversed(dims), <<>>)

\* named_sizes is the dict as the sequence of its items
Kept(named_sizes) == SelectSeq(named_sizes, LAMBDA item : item.size # 1)
SizesOf(items) == [k \in 1..Len(items) |-> items[k].size]

unflatten_array(named_sizes, assignment) ==
  LET kept == Kept(named_sizes)
      sizes == SizesOf(kept)
      strides == strides_for_sizes(sizes)
      superdims == unflatten_superdims(assignment)
      dims == explode_superdims(sizes, superdims.out)
      keys == [k \in 1..Len(kept) |-> <<sizes[k], strides[k]>>]
      names == [k \in 1..Len(kept) |-> kept[k].name]
  IN IF ~superdims.ok THEN superdims
     ELSE IF ~dims.ok THEN dims
     ELSE IF \E d \in 1..Len(dims.out) : ~HasKey(keys, dims.out[d])
       THEN Raised("KeyError", <<>>, <<>>)
     ELSE Returned(<<>>, [d \in 1..Len(dims.out) |->
                           Lookup(keys, names, dims.out[d])])

\* np.arange(np.prod(sizes)).reshape(sizes).transpose(perm).flatten():
\* entry j of the result has the multi-index of j in the transposed shape
\* and the value that multi-index has in the row-major base array
RowMajor(sizes) ==
  [k \in 1..Len(sizes) |-> Product(SubSeq(sizes, k + 1, Len(sizes)))]
RECURSIVE Dot(_, _)
Dot(xs, ys) ==
  IF xs = <<>> THEN 0 ELSE xs[1] * ys[1] + Dot(Tail(xs), Tail(ys))
TransposeFlatten(sizes, perm) ==
  LET moved == [k \in 1..Len(perm) |-> sizes[perm[k]]]
      base == RowMajor(sizes)
  IN [j \in 1..Product(sizes) |->
        Dot([k \in 1..Len(perm) |->
               ((j - 1) \div RowMajor(moved)[k]) % moved[k]],
            [k \in 1..Len(perm) |-> base[perm[k]]])]

\* dicts of up to three named axes and the device assignments of every
\* transposition of their axes of size greater than one
AxisNames == <<"x", "y", "z">>
AxisSizes == {1, 2, 3, 4}
AxisOrders(n) ==
  {p \in [1..n -> 1..n] : \A i, j \in 1..n : p[i] = p[j] => i = j}
NamedSizes ==
  UNION {{[k \in 1..n |-> [name |-> AxisNames[k], size |-> s[k]]] :
            s \in [1..n -> AxisSizes]} : n \in 0..Len(AxisNames)}
UnflattenArrayCalls ==
  UNION {{[rule |-> "unflatten_array", named_sizes |-> named_sizes,
           perm |-> perm,
           assignment |->
             TransposeFlatten(SizesOf(Kept(named_sizes)), perm)] :
            perm \in AxisOrders(Len(Kept(named_sizes)))} :
         named_sizes \in NamedSizes}

UnflattenArray ==
  /\ ret = NoRet
  /\ call.rule = "unflatten_array"
  /\ ret' = unflatten_array(call.named_sizes, call.assignment)
  /\ UNCHANGED <<call, wvars>>

\* Python and numpy values the shardings hold: a tuple, and an ndarray of
\* objects by its shape and its entries in row-major order
PyTuple(xs) == [type |-> "tuple", shape |-> <<Len(xs)>>, flat |-> xs]
NdArray(shape, flat) == [type |-> "ndarray", shape |-> shape, flat |-> flat]

\* np.array(devices, dtype='object') of a sequence of devices
np_array(devices) ==
  IF devices.type = "ndarray" THEN devices
  ELSE NdArray(<<Len(devices.flat)>>, devices.flat)

\* a memory kind, or None
NoKind == "None"

\* Mesh(devices, axis_names)
Mesh(devices, axis_names) == [devices |-> devices, axis_names |-> axis_names]

\* an entry of a PartitionSpec: None, one axis name, or a tuple of names
SpecNone == [tag |-> "None", axes |-> <<>>]
SpecName(a) == [tag |-> "name", axes |-> <<a>>]
SpecTuple(as) == [tag |-> "tuple", axes |-> as]

\* ParsedPartitionSpec.from_user_input: every entry becomes the tuple of
\* its axes, in sync with the user's spec
IN_SYNC == 2
NoParsed == [partitions |-> "None"]
from_user_input(entry) ==
  [unsafe_user_spec |-> entry,
   partitions |-> [k \in 1..Len(entry) |-> entry[k].axes],
   sync |-> IN_SYNC]

\* NamedSharding.__init__ and _preprocess: the spec is parsed unless a
\* parsed spec is handed in, and every axis it names must be a mesh axis
NamedSharding(mesh, spec, memory_kind, _parsed_pspec, _manual_axes) ==
  LET parsed == IF _parsed_pspec = NoParsed THEN from_user_input(spec)
                ELSE _parsed_pspec
      named == {parsed.partitions[k][r] :
                  <<k, r>> \in {kr \in (1..Len(parsed.partitions))
                                         \X (1..Len(mesh.axis_names)) :
                                  kr[2] <= Len(parsed.partitions[kr[1]])}}
      known == {mesh.axis_names[a] : a \in 1..Len(mesh.axis_names)}
  IN IF ~(named \subseteq known)
       THEN Raised("ValueError", <<"Resource axis">>, <<>>)
       ELSE Returned(<<>>,
                     <<[cls |-> "NamedSharding", mesh |-> mesh, spec |-> spec,
                        memory_kind |-> memory_kind, parsed_pspec |-> parsed,
                        manual_axes |-> _manual_axes]>>)

\* SingleDeviceSharding.__init__
SingleDeviceSharding(device, memory_kind) ==
  Returned(<<>>, <<[cls |-> "SingleDeviceSharding", device |-> device,
                    memory_kind |-> memory_kind]>>)

\* PositionalSharding.__init__: the devices are flattened, and position i
\* gets the id set {i} in an array of the shape the devices came in
PositionalSharding(devices, memory_kind) ==
  LET arr == np_array(devices)
  IN IF arr.flat = <<>>
       THEN Raised("ValueError", <<"at least one device">>, <<>>)
       ELSE Returned(<<>>,
                     <<[cls |-> "PositionalSharding", devices |-> arr.flat,
                        memory_kind |-> memory_kind,
                        ids |-> NdArray(arr.shape,
                                        [i \in 1..Len(arr.flat) |->
                                           {i - 1}])]>>)

\* GSPMDSharding.__init__: an OpSharding proto is converted, an HloSharding
\* is kept
from_proto(op_sharding) ==
  HloSharding(op_sharding.replicated, op_sharding.partitions)
OpSharding(replicated, partitions) ==
  [proto |-> TRUE, replicated |-> replicated, partitions |-> partitions]
GSPMDSharding(devices, op_sharding, memory_kind) ==
  Returned(<<>>,
           <<[cls |-> "GSPMDSharding", devices |-> devices,
              hlo_sharding |-> IF "proto" \in DOMAIN op_sharding
                                 THEN from_proto(op_sharding)
                                 ELSE op_sharding,
              memory_kind |-> memory_kind]>>)

\* with_memory_kind of the four classes
with_memory_kind(sharding, kind) ==
  CASE sharding.cls = "NamedSharding" ->
         NamedSharding(sharding.mesh, sharding.spec, kind, NoParsed, {})
    [] sharding.cls = "SingleDeviceSharding" ->
         SingleDeviceSharding(sharding.device, kind)
    [] sharding.cls = "PositionalSharding" ->
         PositionalSharding(PyTuple(sharding.devices), kind)
    [] sharding.cls = "GSPMDSharding" ->
         GSPMDSharding(sharding.devices, sharding.hlo_sharding, kind)

\* receivers: shardings of one to four devices as their constructors build
\* them, with and without a memory kind
MemoryKinds == {"device", "pinned_host", "unpinned_host"}
DeviceArrays ==
  {NdArray(<<1>>, <<0>>), NdArray(<<2>>, <<1, 0>>),
   NdArray(<<2, 1>>, <<0, 1>>), NdArray(<<2, 2>>, <<0, 1, 2, 3>>),
   NdArray(<<2, 2>>, <<0, 2, 1, 3>>), NdArray(<<4>>, <<0, 1, 2, 3>>)}
Meshes ==
  {Mesh(arr, SubSeq(<<"x", "y">>, 1, Len(arr.shape))) : arr \in DeviceArrays}
PartitionSpecs ==
  {<<>>, <<SpecName("x")>>, <<SpecNone, SpecName("x")>>,
   <<SpecName("x"), SpecName("y")>>, <<SpecTuple(<<"x", "y">>)>>,
   <<SpecName("y"), SpecNone>>}
Built(results) == {r.out[1] : r \in {c \in results : c.ok}}
Shardings ==
  Built({NamedSharding(mesh, spec, kind, NoParsed, manual) :
           mesh \in Meshes, spec \in PartitionSpecs,
           kind \in {NoKind, "device"}, manual \in {{}, {"x"}}})
  \cup Built({SingleDeviceSharding(d, kind) :
                d \in 0..1, kind \in {NoKind} \cup MemoryKinds})
  \cup Built({PositionalSharding(devices, kind) :
                devices \in DeviceArrays \cup {PyTuple(<<0, 1>>)},
                kind \in {NoKind, "device"}})
  \cup Built({GSPMDSharding(arr.flat, op, kind) :
                arr \in DeviceArrays,
                op \in {HloSharding(TRUE, <<>>), OpSharding(TRUE, <<>>),
                        HloSharding(FALSE, <<2, 1>>),
                        OpSharding(FALSE, <<1, 2>>)},
                kind \in {NoKind, "device"}})
WithMemoryKindCalls ==
  {[rule |-> "with_memory_kind", sharding |-> sharding, kind |-> kind] :
     sharding \in Shardings, kind \in MemoryKinds}

WithMemoryKind ==
  /\ ret = NoRet
  /\ call.rule = "with_memory_kind"
  /\ ret' = with_memory_kind(call.sharding, call.kind)
  /\ UNCHANGED <<call, wvars>>

ShardShape ==
  /\ ret = NoRet
  /\ call.rule = "shard_shape"
  /\ ret' = shard_shape(call.hlo_sharding, call.global_shape)
  /\ UNCHANGED <<call, wvars>>

InitSharding ==
  /\ \/ call \in ShardShapeCalls
     \/ call \in UnflattenArrayCalls
     \/ call \in WithMemoryKindCalls
  /\ ret = NoRet
  /\ prog = NoProgram
  /\ request = NoRequest
  /\ module = NoModule
  /\ stack = <<>>
  /\ emitted = <<>>
  /\ status = "idle"
  /\ error = NoError
  /\ outvals = NoOutputs
  /\ log = <<>>

NextSharding ==
  \/ ShardShape
  \/ UnflattenArray
  \/ WithMemoryKind

SpecSharding == InitSharding /\ [][NextSharding]_vars

----------------------------------------------------------------------------
(* Properties of shard_shape *)

ShardShapeDone == call.rule = "shard_shape" /\ ret # NoRet
Undivided ==
  {d \in 1..Len(call.global_shape) :
     call.global_shape[d] % call.hlo_sharding.partitions[d] # 0}

\* C23: shard_shape returns the global shape unchanged for a replicated
\* sharding; otherwise it returns the shape of the quotients
\* global_shape[d] / p_d when every p_d divides global_shape[d], and the
\* product of (shard dimension * p_d) is the product of the global shape;
\* when some p_d does not divide, it raises ValueError naming the first
\* such dimension.
C23_ShardShape ==
  ShardShapeDone =>
    LET shape == call.global_shape
        p == call.hlo_sharding.partitions
    IN IF call.hlo_sharding.replicated
         THEN ret.ok /\ ret.out = shape
       ELSE IF Undivided = {}
         THEN /\ ret.ok
              /\ Len(ret.out) = Len(shape)
              /\ \A d \in 1..Len(shape) : ret.out[d] * p[d] = shape[d]
              /\ Product([d \in 1..Len(shape) |-> ret.out[d] * p[d]])
                   = Product(shape)
         ELSE /\ ~ret.ok
              /\ ret.err = "ValueError"
              /\ \A d \in Undivided : ret.names[2] + 1 <= d
              /\ ret.names[2] + 1 \in Undivided

\* (4, 6) partitioned 2 x 3 ways gave (2, 2)
C23_Witness ==
  /\ ShardShapeDone
  /\ call.global_shape = <<4, 6>>
  /\ call.hlo_sharding = HloSharding(FALSE, <<2, 3>>)
  /\ ret.ok
  /\ ret.out = <<2, 2>>

----------------------------------------------------------------------------
(* ufunc objects as lax_numpy_ufuncs_test.py uses them: frompyfunc, then
   reads and attempted assignments of attributes *)

\* Python values: None, an int, a function of the test module by its
\* position in SCALAR_FUNCS, the callable a ufunc derives from a function
PyNone == <<"PyNone", 0>>
PyInt(n) == <<"int", n>>
Function(k) == <<"function", k>>
Vectorized(k) == <<"vectorized", k>>

UfuncAttrs == {"nargs", "nin", "nout", "identity", "_func", "_call"}

frompyfunc(func, nin, nout, identity) ==
  [attr \in UfuncAttrs |->
     CASE attr = "nargs" -> PyInt(nin)
       [] attr = "nin" -> PyInt(nin)
       [] attr = "nout" -> PyInt(nout)
       [] attr = "identity" -> identity
       [] attr = "_func" -> func
       [] attr = "_call" -> Vectorized(func[2])]

ufunc_getattr(obj, attr) ==
  IF attr \in DOMAIN obj
    THEN [ok |-> TRUE, err |-> "", attr |-> attr, value |-> obj[attr],
          obj |-> obj]
    ELSE [ok |-> FALSE, err |-> "AttributeError", attr |-> attr,
          value |-> PyNone, obj |-> obj]

\* an assignment that goes through
ufunc_setattr_assigning(obj, attr, value) ==
  [ok |-> TRUE, err |-> "", attr |-> attr, value |-> PyNone,
   obj |-> [a \in DOMAIN obj \cup {attr} |->
              IF a = attr THEN value ELSE obj[a]]]

\* every assignment is refused
ufunc_setattr(obj, attr, value) ==
  [ok |-> FALSE, err |-> "AttributeError", attr |-> attr, value |-> PyNone,
   obj |-> obj]

\* the entries of SCALAR_FUNCS, and further arities
ScalarFuncs ==
  {<<Function(1), PyInt(0)>>, <<Function(2), PyNone>>, <<Function(3), PyInt(1)>>,
   <<Function(4), PyNone>>}
UfuncCalls ==
  {[rule |-> "ufunc", func |-> f[1], nin |-> nin, nout |-> nout,
    identity |-> f[2], obj |-> frompyfunc(f[1], nin, nout, f[2]),
    attempts |-> 0] :
     f \in ScalarFuncs, nin \in {1, 2}, nout \in {1, 2}}

GetAttr ==
  /\ call.rule = "ufunc"
  /\ \E attr \in UfuncAttrs :
       LET r == ufunc_getattr(call.obj, attr)
       IN /\ ret' = [op |-> "getattr", ok |-> r.ok, err |-> r.err,
                     attr |-> attr, value |-> r.value]
          /\ call' = [call EXCEPT !.obj = r.obj]
  /\ UNCHANGED wvars

SetAttr ==
  /\ call.rule = "ufunc"
  /\ call.attempts < MaxSteps
  /\ \E attr \in UfuncAttrs, value \in {PyNone, PyInt(7)} :
       LET r == ufunc_setattr(call.obj, attr, value)
       IN /\ ret' = [op |-> "setattr", ok |-> r.ok, err |-> r.err,
                     attr |-> attr, value |-> r.value]
          /\ call' = [call EXCEPT !.obj = r.obj, !.attempts = @ + 1]
  /\ UNCHANGED wvars

InitUfunc ==
  /\ call \in UfuncCalls
  /\ ret = NoRet
  /\ prog = NoProgram
  /\ request = NoRequest
  /\ module = NoModule
  /\ stack = <<>>
  /\ emitted = <<>>
  /\ status = "idle"
  /\ error = NoError
  /\ outvals = NoOutputs
  /\ log = <<>>

NextUfunc ==
  \/ GetAttr
  \/ SetAttr

SpecUfunc == InitUfunc /\ [][NextUfunc]_vars

----------------------------------------------------------------------------
(* Properties of ufunc objects *)

\* C24: the ufunc built by frompyfunc(func, nin, nout, identity) has nin,
\* nout and identity equal to the arguments and nargs equal to nin; reading
\* nargs, nin, nout, identity, _func or _call never fails; every attempt to
\* assign one of them fails with AttributeError; after any sequence of
\* attempts the values are those of the construction.
C24_UfuncReadOnly ==
  /\ call.obj["nin"] = PyInt(call.nin)
  /\ call.obj["nout"] = PyInt(call.nout)
  /\ call.obj["identity"] = call.identity
  /\ call.obj["nargs"] = PyInt(call.nin)
  /\ call.obj = frompyfunc(call.func, call.nin, call.nout, call.identity)
  /\ ret # NoRet =>
       IF ret.op = "getattr"
         THEN ret.ok /\ ret.value = call.obj[ret.attr]
         ELSE ~ret.ok /\ ret.err = "AttributeError"

\* after two refused assignments identity of the ufunc of scalar_mul reads 1
C24_Witness ==
  /\ call.attempts = 2
  /\ call.func = Function(3)
  /\ ret # NoRet
  /\ ret.op = "getattr"
  /\ ret.attr = "identity"
  /\ ret.value = PyInt(1)

----------------------------------------------------------------------------
(* Properties of the walker: program order *)

Walks(stk) == {d \in 1..Len(stk) : stk[d].kind = "jaxpr_subcomp"}

\* the variables equation e of a jaxpr binds
Written(eqn) ==
  IF multiple_results(eqn.primitive)
    THEN {eqn.outvars[k].id : k \in 1..Len(eqn.outvars)}
    ELSE {eqn.outvars[1].id}

\* in the activation f the equations before pc have bound their outputs,
\* and no later equation has
InOrder(f) ==
  f.pc >= 1 =>
    /\ \A k \in 1..Len(f.jaxpr.invars) :
         f.env[f.jaxpr.invars[k].id] # Unbound
    /\ \A e \in 1..Len(f.jaxpr.eqns) :
         \A id \in Written(f.jaxpr.eqns[e]) :
           (e < f.pc) = (f.env[id] # Unbound)

IsPrefix(s, t) == Len(s) <= Len(t) /\ SubSeq(t, 1, Len(s)) = s

\* C25: a walk passes from equation k only to equation k + 1, and only
\* when the rule of equation k has returned and its outputs are bound, so
\* every equation's rule runs once, after those of the equations before
\* it; instructions are only ever appended, so those of a program (with
\* its nested iterations, regions and inlined calls) stand in program
\* order; every variable an equation reads is bound by then.
C25_ProgramOrder ==
  /\ [](Running =>
          /\ \A d \in Walks(stack) : InOrder(stack[d])
          /\ AtEquation =>
               \A k \in 1..Len(CurEqn.invars) :
                 ~CurEqn.invars[k].lit =>
                   Top.env[CurEqn.invars[k].id] # Unbound)
  /\ [][/\ IsPrefix(emitted, emitted') \/ emitted' = <<>>
        /\ \A d \in Walks(stack) :
             (d <= Len(stack') /\ status' = "running") =>
               /\ stack'[d].kind = "jaxpr_subcomp"
               /\ stack'[d].jaxpr = stack[d].jaxpr
               /\ stack'[d].pc \in {stack[d].pc, stack[d].pc + 1}
               /\ stack'[d].pc # stack[d].pc =>
                    /\ d \in {Len(stack), Len(stack) - 1}
                    /\ InOrder(stack'[d])]_vars

\* the third equation of a kernel is reached with the outputs of the first
\* two bound and their instructions emitted
C25_Witness ==
  /\ AtEquation
  /\ Len(stack) = 1
  /\ Top.pc = 3
  /\ Len(emitted) >= 2
  /\ \A e \in 1..2 : \A id \in Written(Top.jaxpr.eqns[e]) :
       Top.env[id] # Unbound

----------------------------------------------------------------------------
(* Properties of the load and swap rules: mapped dimensions *)

\* the indexer the load / swap rule works on
CallIndexer ==
  IF call.rule \in {"get", "swap"} THEN RebuiltIndexer.indexer.indices
                                   ELSE call.idx.indices

\* the index operands of a memory access instruction
IndexOps(instr) ==
  IF instr.op = "vector.store" THEN Tail(Tail(instr.ins)) ELSE Tail(instr.ins)

\* v is the index made of start: a constant of index type for a host
\* value, the value itself when it has index type, its cast otherwise
IsIndexOf(v, start) ==
  IF start[1] = "host"
    THEN /\ v[1] = "ir"
         /\ ret.instrs[v[2]].op = "arith.constant"
         /\ ret.instrs[v[2]].imm = start[2]
         /\ ret.instrs[v[2]].type = IndexType
  ELSE IF call.types[start] = IndexType THEN v = start
  ELSE /\ v[1] = "ir"
       /\ ret.instrs[v[2]].op = "arith.index_cast"
       /\ ret.instrs[v[2]].ins = <<start>>

IsLiteralZero(v) ==
  /\ v[1] = "ir"
  /\ ret.instrs[v[2]].op = "arith.constant"
  /\ ret.instrs[v[2]].imm = 0
  /\ ret.instrs[v[2]].type = IndexType

\* C26: in the load and swap rules every memory access carries one index
\* per entry of the block shape of the reference: a literal 0 at every
\* mapped position, and at the other positions the computed indices (slice
\* starts, integer indices) in their order; the tile loaded has size 1 at
\* the mapped positions, and the value returned has the logical output
\* shape, in which no mapped position appears.
C26_MappedDimensionsIndexZero ==
  (IndexingDone /\ ret.ok) =>
    LET bs == call.ctx.block_shapes[1]
        rank == Len(bs)
        out_shape == call.ctx.avals_out[1].shape
        accesses == Positions(ret.instrs, {"vector.load", "vector.store",
                                           "memref.load"})
        unmapped(p) == Cardinality(NotMapped(bs, p))
        slices(k) == Cardinality({j \in 1..k : CallIndexer[j].slice})
    IN /\ accesses # {}
       /\ \A a \in accesses :
            LET ix == IndexOps(ret.instrs[a])
            IN /\ Len(ix) = rank
               /\ \A p \in 1..rank :
                    IF bs[p] = Mapped THEN IsLiteralZero(ix[p])
                    ELSE IsIndexOf(ix[p], CallIndexer[unmapped(p)].v)
       /\ \A a \in Positions(ret.instrs, {"vector.load"}) :
            LET tile == ret.instrs[a].type.shape
            IN /\ Len(tile) = rank
               /\ \A p \in 1..rank :
                    tile[p] = IF bs[p] = Mapped THEN 1
                              ELSE IF ~CallIndexer[unmapped(p)].slice THEN 1
                              ELSE out_shape[slices(unmapped(p))]
       /\ ret.out[1][1] = "ir"
       /\ ret.instrs[ret.out[1][2]].type.shape = out_shape
       /\ Len(out_shape) = slices(Len(CallIndexer))

\* a load from a block of shape (mapped, 8) with the indexer [0:8]: the
\* indices are (0, 0), the tile is (1, 8) and the value returned (8,)
C26_Witness ==
  /\ IndexingDone /\ ret.ok
  /\ call.rule = "load"
  /\ call.ctx.block_shapes[1] = <<Mapped, 8>>
  /\ call.idx.indices = <<Slice(HostVal(0), 8)>>
  /\ \E a \in Positions(ret.instrs, {"vector.load"}) :
       /\ Len(IndexOps(ret.instrs[a])) = 2
       /\ ret.instrs[a].type.shape = <<1, 8>>
  /\ ret.instrs[ret.out[1][2]].type.shape = <<8>>

----------------------------------------------------------------------------
(* Properties of nested scopes *)

\* the block shapes a rule hands to the walk it starts from the activation
\* on top of the stack
DerivedBlockShapes ==
  CASE Top.kind = "for" -> <<<<>>>> \o Top.ctx.block_shapes
    [] Top.kind = "scan" ->
         IF Top.has_loop_index THEN Top.ctx.block_shapes
         ELSE SubSeq(Top.ctx.block_shapes, 1, Len(Top.consts))
                \o SubSeq(Top.ctx.block_shapes, Len(Top.consts) + 2,
                          Len(Top.ctx.block_shapes))
    [] Top.kind = "cond" -> Tail(Top.ctx.block_shapes)
    [] OTHER -> rule_context(Top).block_shapes

\* the variables the step of activation f may bind: its inputs on entry,
\* the outputs of its current equation afterwards
Binds(f) ==
  IF f.pc = 0 THEN {f.jaxpr.invars[k].id : k \in 1..Len(f.jaxpr.invars)}
  ELSE IF f.pc > Len(f.jaxpr.eqns) THEN {}
  ELSE Written(f.jaxpr.eqns[f.pc])

\* everything of an activation of a walk but its position and what its own
\* step binds
SameScope(f, g) ==
  /\ g.kind = f.kind
  /\ g.jaxpr = f.jaxpr
  /\ g.block_shapes = f.block_shapes
  /\ g.region = f.region
  /\ g.args = f.args
  /\ \A id \in DOMAIN f.env : id \notin Binds(f) => g.env[id] = f.env[id]

\* C27: a walk started by a rule (for, scan, cond, pjit, custom_jvp_call,
\* lower_fun) runs under the caller's context with only the block shapes
\* replaced, and in an environment of its own; while it runs and when it
\* returns, the context of the function, the rule contexts and the
\* environments of all enclosing activations are as they were, the caller
\* then binding only the outputs of its own equation.
C27_NestedScopesIsolated ==
  [][(Running /\ status' = "running") =>
       /\ prog' = prog
       /\ Len(stack') <= Len(stack) + 1
       /\ \A d \in 1..Len(stack') :
            \/ d > Len(stack)
            \/ stack'[d] = stack[d]
            \/ /\ d = Len(stack')
               /\ IF stack[d].kind = "jaxpr_subcomp"
                    THEN SameScope(stack[d], stack'[d])
                    ELSE /\ stack'[d].kind = stack[d].kind
                         /\ stack'[d].ctx = stack[d].ctx
                         /\ stack'[d].jaxpr = stack[d].jaxpr
       /\ (Len(stack') = Len(stack) + 1
             /\ stack'[Len(stack')].kind = "jaxpr_subcomp") =>
            LET new == stack'[Len(stack')]
            IN /\ new.pc = 0
               /\ \A id \in DOMAIN new.env : new.env[id] = Unbound
               /\ new.block_shapes = DerivedBlockShapes]_vars

\* the body of a loop or a branch nested in another scope has returned to
\* its rule and the kernel's environment still holds the kernel's arguments
C27_Witness ==
  /\ Running
  /\ Len(stack) >= 3
  /\ stack[1].kind = "jaxpr_subcomp"
  /\ stack[1].pc >= 1
  /\ Top.kind \in {"for", "scan", "cond"}
  /\ Top.i + (IF Top.phase = "else" THEN 1 ELSE 0) >= 1
  /\ \A k \in 1..Len(stack[1].jaxpr.invars) :
       stack[1].env[stack[1].jaxpr.invars[k].id] = stack[1].args[k]

----------------------------------------------------------------------------
(* Properties of the scan rule: the loop index *)

\* the integer held by the constant instruction that defines value v after
\* the step
ConstantOf(v) == emitted'[v[2]].imm

\* the scan rule of a counted loop with a loop index is about to take a step
ScanWithIndex == Running /\ Top.kind = "scan" /\ Top.has_loop_index

\* C28: the body of iteration k of a counted loop receives the index
\* start + k, and the loop index the scan rule returns as its first output
\* is start + length, whatever start is.
C28_LoopIndexFromStart ==
  [][ScanWithIndex =>
       /\ Len(stack') = Len(stack) + 1 =>
            LET body == stack'[Len(stack')]
                index == body.args[Len(Top.consts) + 1]
            IN /\ index[1] = "ir"
               /\ emitted'[index[2]].op = "arith.constant"
               /\ ConstantOf(index) = Top.start[2] + Top.i
       /\ (Len(stack') = Len(stack) - 1 /\ status' = "running") =>
            LET index == stack'[Len(stack')].env[RuleEqn.outvars[1].id]
            IN /\ index[1] = "ir"
               /\ emitted'[index[2]].op = "arith.constant"
               /\ ConstantOf(index)
                    = Top.start[2] + RuleEqn.params.length]_vars

----------------------------------------------------------------------------
(* Properties of unflatten_array *)

UnflattenArrayDone == call.rule = "unflatten_array" /\ ret # NoRet

\* C29: for the device assignment of a transposition perm of the axes of
\* size greater than one, unflatten_array returns the names of those axes
\* in the major-to-minor order of perm, and the dimensions explode_superdims
\* produces have exactly the sizes of those axes, in that order.
C29_UnflattenRecoversAxisOrder ==
  UnflattenArrayDone =>
    LET kept == Kept(call.named_sizes)
        sizes == SizesOf(kept)
        dims == explode_superdims(sizes,
                                  unflatten_superdims(call.assignment).out)
    IN /\ ret.ok
       /\ ret.out = [k \in 1..Len(call.perm) |-> kept[call.perm[k]].name]
       /\ dims.ok
       /\ [d \in 1..Len(dims.out) |-> dims.out[d][1]]
            = [k \in 1..Len(call.perm) |-> sizes[call.perm[k]]]

\* x: 2, y: 3, z: 4 transposed to (z, x, y): x and y stay contiguous, are
\* found as one dimension of size 6 and split again
C29_Witness ==
  /\ UnflattenArrayDone
  /\ SizesOf(call.named_sizes) = <<2, 3, 4>>
  /\ call.perm = <<3, 1, 2>>
  /\ unflatten_superdims(call.assignment).out = <<<<6, 4>>, <<4, 1>>>>
  /\ ret.out = <<"z", "x", "y">>

----------------------------------------------------------------------------
(* Properties of with_memory_kind *)

WithMemoryKindDone == call.rule = "with_memory_kind" /\ ret # NoRet

\* C30: with_memory_kind(kind) of a NamedSharding, SingleDeviceSharding,
\* PositionalSharding or GSPMDSharding returns a sharding of the same class
\* with memory kind kind, the same devices in the same order and the same
\* partitioning: the shape of the device-id array for PositionalSharding,
\* the spec, parsed spec and manual axes for NamedSharding, the HLO
\* sharding for GSPMDSharding.
C30_OnlyMemoryKindChanges ==
  WithMemoryKindDone =>
    /\ ret.ok
    /\ LET old == call.sharding
           new == ret.out[1]
       IN /\ new.cls = old.cls
          /\ new.memory_kind = call.kind
          /\ CASE old.cls = "NamedSharding" ->
                    /\ new.mesh = old.mesh
                    /\ new.spec = old.spec
                    /\ new.parsed_pspec = old.parsed_pspec
                    /\ new.manual_axes = old.manual_axes
               [] old.cls = "SingleDeviceSharding" ->
                    new.device = old.device
               [] old.cls = "PositionalSharding" ->
                    /\ new.devices = old.devices
                    /\ new.ids.shape = old.ids.shape
               [] old.cls = "GSPMDSharding" ->
                    /\ new.devices = old.devices
                    /\ new.hlo_sharding = old.hlo_sharding

====
